---- MODULE Spec2Model ----
(***************************************************************************)
(* Capture orchestration and delivery pipeline of cosinc:                  *)
(*   ContextAggregator (captureContext, sendToWebhook, loadCapture,        *)
(*   deleteCapture, retryWebhook, cleanupOldCaptures), WebhookService.send,*)
(*   DatabaseHelper (the captures table) and the three source adapters.    *)
(*                                                                         *)
(* Asynchronous methods are split at their awaits: a step is one turn of   *)
(* the event loop. The file operations on the JSON blob are split further  *)
(* into the turns in which the thread pool performs them (open, then read  *)
(* or write and close), since other calls run between them.                *)
(* Storage faults (a database statement throwing, an unlink failing for a  *)
(* reason other than a missing file, a write failing) are choices of the   *)
(* environment.                                                            *)
(***************************************************************************)
EXTENDS Integers, Sequences, FiniteSets, TLC

\* ------------------------------------------------------------------ bounds
MaxCaptures == 2
MaxCalls == 1
MaxDelivered == 1
MaxRetryCalls == 1
MaxDay == 1
MaxDaysOld == 1

\* ------------------------------------------------------- program constants
maxRetries == 3
retryDelayMs == 1000
maxLength == 10000
MaxTabs == 50
QueryLimit == 1000
DayMs == 24 * 60 * 60 * 1000

\* ------------------------------------------------------------ value shapes
\* JavaScript null / undefined for object-typed values, and their string-typed
\* counterparts (TLC compares strings only with strings).
Null == [k |-> "null"]
Undefined == [k |-> "undefined"]
NullStr == "<null>"
UndefinedStr == "<undefined>"

Falsy(s) == s \in {"", NullStr, UndefinedStr}

\* x || 'Unknown'
OrUnknownRaw(s) == s
OrUnknown(s) == IF Falsy(s) THEN "Unknown" ELSE s

Ids == 1 .. (CHOOSE n \in {MaxCaptures, MaxCalls, MaxDelivered} :
              \A m \in {MaxCaptures, MaxCalls, MaxDelivered} : m <= n)
\* an identity no capture call ever generated
UnknownId == 0

Min(a, b) == IF a < b THEN a ELSE b

\* ---------------------------------------------------------- ClipboardCapture
\* Text is a sequence of character codes.
TruncationMarker == << 46, 46, 46, 32, 91, 116, 114, 117, 110, 99, 97, 116, 101, 100, 93 >>

\* /[\x00-\x08\x0B-\x0C\x0E-\x1F\x7F]/
IsControl(c) ==
  \/ (c >= 0 /\ c <= 8)
  \/ (c >= 11 /\ c <= 12)
  \/ (c >= 14 /\ c <= 31)
  \/ c = 127

\* String.prototype.trim: white space and line terminators (ASCII part)
IsSpace(c) == c \in {9, 10, 11, 12, 13, 32}

AllSpace(s) == \A i \in DOMAIN s : IsSpace(s[i])

\* s from its first character that is not white space
TrimLeft(s) ==
  IF AllSpace(s) THEN << >>
  ELSE LET first == CHOOSE i \in DOMAIN s :
                      ~IsSpace(s[i]) /\ \A j \in 1 .. i - 1 : IsSpace(s[j])
       IN  SubSeq(s, first, Len(s))

\* s up to its last character that is not white space
TrimRight(s) ==
  IF AllSpace(s) THEN << >>
  ELSE LET last == CHOOSE i \in DOMAIN s :
                     ~IsSpace(s[i]) /\ \A j \in i + 1 .. Len(s) : IsSpace(s[j])
       IN  SubSeq(s, 1, last)

Trim(s) == TrimRight(TrimLeft(s))

StripControl(s) ==
  LET Kept(c) == ~IsControl(c)
  IN  SelectSeq(s, Kept)

sanitizeTextCapFirst(text) ==
  IF Len(Trim(text)) = 0 THEN Null
  ELSE LET capped == IF Len(text) > maxLength
                       THEN Trim(StripControl(SubSeq(text, 1, maxLength)))
                              \o TruncationMarker
                       ELSE Trim(StripControl(text))
       IN  IF Len(capped) > 0 THEN [text |-> capped] ELSE Null
\* sanitizeText: Null when nothing is left
sanitizeText(text) ==
  IF Len(Trim(text)) = 0 THEN Null
  ELSE LET stripped == Trim(StripControl(text))
           capped == IF Len(stripped) > maxLength
                       THEN SubSeq(stripped, 1, maxLength) \o TruncationMarker
                       ELSE stripped
       IN  IF Len(capped) > 0 THEN [text |-> capped] ELSE Null

\* What the clipboard holds: the read throws, or it yields html and plain text.
ClipboardRead(html, text) == [k |-> "read", html |-> html, text |-> text]
ClipboardThrows == [k |-> "throws"]

captureClipboard(cb) ==
  IF cb = ClipboardThrows THEN Null
  ELSE LET h == IF Len(Trim(cb.html)) > 0 THEN sanitizeText(cb.html) ELSE Null
           p == IF Len(Trim(cb.text)) > 0 THEN sanitizeText(cb.text) ELSE Null
       IN  IF h # Null THEN [text |-> h.text, type |-> "html"]
           ELSE IF p # Null THEN [text |-> p.text, type |-> "plain"]
           ELSE Null

\* -------------------------------------------------------- ActiveWindowCapture
\* Outcome of one osascript call under execWithTimeout: it rejects (error or
\* timer) or resolves with stdout.
ExecFailed == [k |-> "failed"]
ExecOut(s) == [k |-> "stdout", out |-> s]

\* execWithTimeout(command). The promise it returns: its state and value, the
\* timer, what the OS call gives when it completes (out: its stdout, or
\* ExecFailed for an error exit) and whether the callback of exec has run.
CommandTimeout == [k |-> "error", message |-> "Command timeout"]
CommandError == [k |-> "error", message |-> "Command failed"]
execWithTimeout(out) ==
  [state |-> "pending", value |-> Null, timer |-> "armed", out |-> out, called |-> FALSE]

settleLastWins(p, state, value) == [p EXCEPT !.state = state, !.value = value]
\* resolve(...) and reject(...): the first of them settles the promise, the
\* later ones do nothing
settle(p, state, value) ==
  IF p.state = "pending" THEN [p EXCEPT !.state = state, !.value = value] ELSE p

timerFiresUnheard(p) == [p EXCEPT !.timer = "fired"]
\* setTimeout(() => { reject(new Error('Command timeout')); }, this.timeout)
timerFires(p) == [settle(p, "rejected", CommandTimeout) EXCEPT !.timer = "fired"]

\* exec(command, (error, stdout, stderr) => { clearTimeout(timeout); ... })
execCallback(p) ==
  LET q == [p EXCEPT !.called = TRUE, !.timer = IF @ = "armed" THEN "cleared" ELSE @]
  IN  IF p.out = ExecFailed THEN settle(q, "rejected", CommandError)
      ELSE settle(q, "resolved", p.out)

\* what the adapter awaiting the promise gets: the stdout, or its catch
awaitExec(p) == IF p.state = "resolved" THEN p.value ELSE ExecFailed

\* getFrontmostApp: stdout is name|bundleId, given here as its two parts
getFrontmostApp(q) ==
  IF q = ExecFailed THEN Null
  ELSE [name |-> IF q.out[1] = "" THEN "Unknown" ELSE q.out[1],
        bundleId |-> IF q.out[2] = "" THEN UndefinedStr ELSE q.out[2]]

\* getWindowTitle: title || null
getWindowTitle(q) ==
  IF q = ExecFailed THEN NullStr
  ELSE IF q.out = "" THEN NullStr ELSE q.out

captureActiveWindow(appQ, titleQ) ==
  LET appInfo == getFrontmostApp(appQ)
      windowTitle == getWindowTitle(titleQ)
  IN  IF appInfo = Null THEN Null
      ELSE [app |-> appInfo.name,
            title |-> OrUnknown(windowTitle),
            bundleId |-> appInfo.bundleId]

\* ---------------------------------------------------------- BrowserTabCapture
Browsers == << "Chrome", "Safari", "Firefox", "Edge" >>

\* sixty urls of one site, for tab lists long enough to meet the limit
UrlPool ==
  << "https://s.io/1", "https://s.io/2", "https://s.io/3",
     "https://s.io/4", "https://s.io/5", "https://s.io/6",
     "https://s.io/7", "https://s.io/8", "https://s.io/9",
     "https://s.io/10", "https://s.io/11", "https://s.io/12",
     "https://s.io/13", "https://s.io/14", "https://s.io/15",
     "https://s.io/16", "https://s.io/17", "https://s.io/18",
     "https://s.io/19", "https://s.io/20", "https://s.io/21",
     "https://s.io/22", "https://s.io/23", "https://s.io/24",
     "https://s.io/25", "https://s.io/26", "https://s.io/27",
     "https://s.io/28", "https://s.io/29", "https://s.io/30",
     "https://s.io/31", "https://s.io/32", "https://s.io/33",
     "https://s.io/34", "https://s.io/35", "https://s.io/36",
     "https://s.io/37", "https://s.io/38", "https://s.io/39",
     "https://s.io/40", "https://s.io/41", "https://s.io/42",
     "https://s.io/43", "https://s.io/44", "https://s.io/45",
     "https://s.io/46", "https://s.io/47", "https://s.io/48",
     "https://s.io/49", "https://s.io/50", "https://s.io/51",
     "https://s.io/52", "https://s.io/53", "https://s.io/54",
     "https://s.io/55", "https://s.io/56", "https://s.io/57",
     "https://s.io/58", "https://s.io/59", "https://s.io/60" >>

\* new URL(url).hostname for the urls the model feeds in; "" when URL throws
Hostname(url) ==
  CASE url = "https://a.com/1" -> "a.com"
    [] url \in {UrlPool[i] : i \in DOMAIN UrlPool} -> "s.io"
    [] url = "https://a.com/2" -> "a.com"
    [] url = "https://b.org/" -> "b.org"
    [] OTHER -> ""

\* the values of i the loop of parseAppleScriptTabOutput visits over
\* parts = output.split(',').map(trim): i = 0, 2, .. while i < parts.length - 1
pairStarts(parts) == [k \in 1 .. Len(parts) \div 2 |-> 2 * k - 1]
\* the pair at i is pushed: url and title are non-empty and new URL(url) parses
pairPushed(parts, i) ==
  parts[i] # "" /\ parts[i + 1] # "" /\ Hostname(parts[i]) # ""

parseAppleScriptTabOutput(parts, browser) ==
  LET pushed == SelectSeq(pairStarts(parts), LAMBDA i : pairPushed(parts, i))
  IN  [k \in 1 .. Len(pushed) |->
         [url |-> parts[pushed[k]], title |-> parts[pushed[k] + 1],
          domain |-> Hostname(parts[pushed[k]]), browser |-> browser]]

\* captureChromeTabs / captureSafariTabs / captureFirefoxTabs / captureEdgeTabs
captureBrowserTabs(q, browser) ==
  IF q = ExecFailed THEN << >> ELSE parseAppleScriptTabOutput(q.out, browser)

\* the Set seen when the loop of deduplicateTabs reaches tabs[i]: every url
\* met before it has been added, by the entry that was pushed for it
seenAt(tabs, i) == {tabs[j].url : j \in 1 .. i - 1}

deduplicateTabsPerBrowser(tabs) ==
  LET Keep(i) == \A j \in 1 .. i - 1 :
                   ~(tabs[j].url = tabs[i].url /\ tabs[j].browser = tabs[i].browser)
      kept == SelectSeq([i \in 1 .. Len(tabs) |-> i], Keep)
  IN  [k \in 1 .. Len(kept) |-> tabs[kept[k]]]
\* for (const tab of tabs) if (!seen.has(tab.url)) { seen.add; unique.push }
deduplicateTabs(tabs) ==
  LET pushed == SelectSeq([i \in 1 .. Len(tabs) |-> i],
                          LAMBDA i : tabs[i].url \notin seenAt(tabs, i))
  IN  [k \in 1 .. Len(pushed) |-> tabs[pushed[k]]]

RECURSIVE collectTabs(_, _)
\* results.forEach: the fulfilled, non-empty results appended in browser order
collectTabs(qs, i) ==
  IF i > Len(Browsers) THEN << >>
  ELSE captureBrowserTabs(qs[i], Browsers[i]) \o collectTabs(qs, i + 1)

captureTabsAllOrNothing(qs) ==
  IF \E b \in DOMAIN qs : qs[b] = ExecFailed THEN << >>
  ELSE LET uniqueTabs == deduplicateTabs(collectTabs(qs, 1))
       IN  SubSeq(uniqueTabs, 1, Min(MaxTabs, Len(uniqueTabs)))
captureTabsCapFirst(qs) ==
  LET all == collectTabs(qs, 1)
  IN  deduplicateTabs(SubSeq(all, 1, Min(MaxTabs, Len(all))))
captureTabs(qs) ==
  LET uniqueTabs == deduplicateTabs(collectTabs(qs, 1))
  IN  SubSeq(uniqueTabs, 1, Min(MaxTabs, Len(uniqueTabs)))

\* ------------------------------------------------------------ WebhookService
\* Errors are records, so that any two of them can be compared.
Err(text) == [text |-> text]
ClientErr(status) == [text |-> "Client error: ", status |-> status]
NoStatus == Undefined
Status(n) == [code |-> n]

\* What one axios.post settles to: a response with a status (2xx resolves,
\* anything else rejects with an AxiosError carrying the response), or a
\* rejection without response (network error, timeout). NoResponse("") is a
\* rejection whose message is empty or that carries none.
Response(n) == [k |-> "response", status |-> n]
NoResponse(msg) == [k |-> "error", message |-> msg]
Resolves(o) == o.k = "response" /\ o.status >= 200 /\ o.status < 300

\* error.message of the rejection
MessageOf(o) ==
  IF o.k = "response" THEN [text |-> "Request failed with status code ", status |-> o.status]
  ELSE Err(o.message)

\* lastError?.message || 'Unknown error': an empty message, or a rejection
\* value that has none, gives the default
OrUnknownError(m) == IF m = Err("") THEN Err("Unknown error") ELSE m

IsClientErrorOpen(o) == o.k = "response" /\ o.status > 400 /\ o.status < 499
\* error.response && error.response.status >= 400 && error.response.status < 500
IsClientError(o) == o.k = "response" /\ o.status >= 400 /\ o.status < 500

backoffDelayShifted(attempt) == retryDelayMs * 2 ^ attempt
\* this.retryDelayMs * Math.pow(2, attempt - 1)
backoffDelay(attempt) == retryDelayMs * 2 ^ (attempt - 1)

\* A send in progress: the loop variable, the posts made, the sleeps taken and
\* lastError.
Idle == [pc |-> "idle", id |-> UnknownId, attempt |-> 0, posts |-> 0,
         waits |-> << >>, lastError |-> Null]
\* send() up to its first await: attempt 1 is posted
sendStart(id) == [pc |-> "post", id |-> id, attempt |-> 1, posts |-> 1,
                  waits |-> << >>, lastError |-> Null]

sendAttemptFirstError(d, o) ==
  LET first == IF d.lastError = Null THEN MessageOf(o) ELSE d.lastError
  IN  IF Resolves(o)
        THEN [d |-> d, res |-> [success |-> TRUE, error |-> Undefined,
                                statusCode |-> Status(o.status)]]
      ELSE IF IsClientError(o)
        THEN [d |-> [d EXCEPT !.lastError = first],
              res |-> [success |-> FALSE, error |-> ClientErr(o.status),
                       statusCode |-> Status(o.status)]]
      ELSE IF d.attempt < maxRetries
        THEN [d |-> [d EXCEPT !.lastError = first, !.pc = "sleep",
                              !.waits = Append(@, backoffDelay(d.attempt))],
              res |-> Null]
      ELSE [d |-> [d EXCEPT !.lastError = first],
            res |-> [success |-> FALSE, error |-> OrUnknownError(first),
                     statusCode |-> NoStatus]]
\* One pass through the loop body once the post of d.attempt has settled to o:
\* the send returns (res) or goes to sleep before the next attempt.
sendAttempt(d, o) ==
  IF Resolves(o)
    THEN [d |-> d, res |-> [success |-> TRUE, error |-> Undefined,
                            statusCode |-> Status(o.status)]]
  ELSE IF IsClientError(o)
    THEN [d |-> [d EXCEPT !.lastError = MessageOf(o)],
          res |-> [success |-> FALSE, error |-> ClientErr(o.status),
                   statusCode |-> Status(o.status)]]
  ELSE IF d.attempt < maxRetries
    THEN [d |-> [d EXCEPT !.lastError = MessageOf(o), !.pc = "sleep",
                          !.waits = Append(@, backoffDelay(d.attempt))],
          res |-> Null]
  ELSE [d |-> [d EXCEPT !.lastError = MessageOf(o)],
        res |-> [success |-> FALSE, error |-> OrUnknownError(MessageOf(o)),
                 statusCode |-> NoStatus]]

\* the sleep is over: attempt++ and the next post
sendWake(d) == [d EXCEPT !.pc = "post", !.attempt = @ + 1, !.posts = @ + 1]

RECURSIVE runSend(_, _)
\* send() run to its return against the outcomes outs of its successive posts
runSend(d, outs) ==
  LET a == sendAttempt(d, Head(outs))
  IN  IF a.res # Null
        THEN [res |-> a.res, posts |-> a.d.posts, waits |-> a.d.waits]
        ELSE runSend(sendWake(a.d), Tail(outs))

\* The outcome sequences a send can meet: each one is consumed to its end.
SendScripts(outcomes) ==
  {s \in UNION {[1 .. n -> outcomes] : n \in 1 .. maxRetries} :
     /\ \A i \in 1 .. Len(s) - 1 : ~Resolves(s[i]) /\ ~IsClientError(s[i])
     /\ Len(s) < maxRetries => (Resolves(s[Len(s)]) \/ IsClientError(s[Len(s)]))}

\* ------------------------------------------------------------ DatabaseHelper
NoRow == [k |-> "norow"]
At(ms) == [ms |-> ms]

RowOf(rs, id) == IF id \in DOMAIN rs THEN rs[id] ELSE NoRow
RowIds(rs) == {i \in DOMAIN rs : rs[i] # NoRow}

insertCapture(rs, data) ==
  [rs EXCEPT ![data.id] =
    [timestamp |-> data.timestamp, app_name |-> data.appName,
     window_title |-> data.windowTitle, tabs_count |-> data.tabsCount,
     has_clipboard |-> IF data.hasClipboard THEN 1 ELSE 0,
     screenshot_path |-> data.screenshotPath, json_path |-> data.jsonPath,
     webhook_sent |-> 0, webhook_sent_at |-> Null]]

updateWebhookStatusSkipped(rs, id, sent, t) == rs
updateWebhookStatusUpserts(rs, id, sent, t) ==
  LET status == [webhook_sent |-> IF sent THEN 1 ELSE 0,
                 webhook_sent_at |-> IF sent THEN At(t) ELSE Null]
  IN  IF id \notin DOMAIN rs THEN rs
      ELSE IF rs[id] = NoRow THEN [rs EXCEPT ![id] = status]
      ELSE [rs EXCEPT ![id].webhook_sent = status.webhook_sent,
                      ![id].webhook_sent_at = status.webhook_sent_at]
updateWebhookStatusKeepsStamp(rs, id, sent, t) ==
  IF RowOf(rs, id) = NoRow THEN rs
  ELSE IF sent THEN [rs EXCEPT ![id].webhook_sent = 1, ![id].webhook_sent_at = At(t)]
  ELSE [rs EXCEPT ![id].webhook_sent = 0]
updateWebhookStatusAttempted(rs, id, sent, t) ==
  IF RowOf(rs, id) = NoRow THEN rs
  ELSE [rs EXCEPT ![id].webhook_sent = 1, ![id].webhook_sent_at = At(t)]
\* UPDATE captures SET webhook_sent = ?, webhook_sent_at = ? WHERE id = ?
updateWebhookStatus(rs, id, sent, t) ==
  IF RowOf(rs, id) = NoRow THEN rs
  ELSE [rs EXCEPT ![id].webhook_sent = IF sent THEN 1 ELSE 0,
                  ![id].webhook_sent_at = IF sent THEN At(t) ELSE Null]

\* deleteOldCaptures(daysOld) at time t: DELETE FROM captures WHERE timestamp < ?
\* and the number of rows it removed (result.changes)
deleteOldCaptures(rs, daysOld, t) ==
  LET old == {i \in DOMAIN rs : rs[i] # NoRow /\ rs[i].timestamp < t - daysOld * DayMs}
  IN  [rows |-> [i \in DOMAIN rs |-> IF i \in old THEN NoRow ELSE rs[i]],
       changes |-> Cardinality(old)]

\* DELETE FROM captures WHERE id = ?
dbDeleteCapture(rs, id) == IF id \in DOMAIN rs THEN [rs EXCEPT ![id] = NoRow] ELSE rs

\* SELECT * FROM captures WHERE id = ?   (row || null)
getCapture(rs, id) == IF RowOf(rs, id) = NoRow THEN Null ELSE [id |-> id] @@ rs[id]

IsRecencyOrder(rs, s) ==
  \A i \in 1 .. Len(s) - 1 : rs[s[i]].timestamp >= rs[s[i + 1]].timestamp

\* The orders of all rows by timestamp, newest first (rows of equal timestamp
\* come in either order).
RecencyOrders(rs) ==
  {s \in [1 .. Cardinality(RowIds(rs)) -> RowIds(rs)] :
     /\ \A i, j \in DOMAIN s : i # j => s[i] # s[j]
     /\ IsRecencyOrder(rs, s)}

\* SELECT * FROM captures ORDER BY timestamp DESC LIMIT ?  -- every result the
\* statement can give, each a sequence of ids
getCaptures(rs, limit) ==
  {SubSeq(s, 1, Min(limit, Len(s))) : s \in RecencyOrders(rs)}

getUnsentCapturesInverted(rs) == {i \in RowIds(rs) : rs[i].webhook_sent = 1}
\* SELECT * FROM captures WHERE webhook_sent = 0
getUnsentCaptures(rs) == {i \in RowIds(rs) : rs[i].webhook_sent = 0}

\* --------------------------------------------------------- ContextAggregator
\* Files. A blob is absent, a JSON document, or a file that does not parse
\* (what a failed write can leave behind).
NoFile == [k |-> "nofile"]
Corrupt == [k |-> "corrupt"]
\* what a readFile that was rejected for another reason than a missing name
\* (the open or a read failing: EMFILE, EACCES, EIO) leaves its caller with
ReadError == [k |-> "error"]

BlobOf(bs, id) == IF id \in DOMAIN bs THEN bs[id] ELSE NoFile

\* path.join(this.capturesDir, `${captureId}.json`) and
\* path.join(this.screenshotsDir, `${captureId}.png`); '' is NoPath
NoPath == [dir |-> "", id |-> UnknownId]
JsonPath(id) == [dir |-> "captures", id |-> id]
ShotPath(id) == [dir |-> "capture_screenshots", id |-> id]

\* screenshotBuffer.toString('base64') of the image file of capture id
Base64(id) == [b64 |-> id]

\* A capture call: its locals, the hook events so far (ev), the sources that
\* failed (failed), how far its writeFile is (write: not begun, the file open,
\* or what it settled to) and, where the OS calls of the adapters are followed
\* one by one, their six execWithTimeout promises (execs).
NewCall == [pc |-> "new", sc |-> Null, hooks |-> "none", ts |-> 0,
            clip |-> Null, aw |-> Null, tabs |-> << >>, shotPath |-> NoPath,
            b64 |-> Undefined, ev |-> << >>, failed |-> {}, result |-> "none",
            write |-> "none", execs |-> << >>]
\* a call that has returned keeps only what it returned
DoneCall(success) ==
  [NewCall EXCEPT !.pc = "done", !.result = IF success THEN "ok" ELSE "failed"]

AppOf(aw) == IF aw = Null THEN UndefinedStr ELSE aw.app
TitleOf(aw) == IF aw = Null THEN UndefinedStr ELSE aw.title
BundleOf(aw) == IF aw = Null THEN UndefinedStr ELSE aw.bundleId

\* const capturedContext: CapturedContext = {...}; process.platform is
\* "darwin": the adapters are AppleScript, the application runs on macOS
BuildContext(id, c) ==
  [id |-> id,
   timestamp |-> [date |-> c.ts],
   activeWindow |-> [app |-> OrUnknown(AppOf(c.aw)),
                     title |-> OrUnknown(TitleOf(c.aw)),
                     bundleId |-> BundleOf(c.aw),
                     screenshot |-> c.b64],
   browserTabs |-> c.tabs,
   clipboard |-> c.clip,
   metadata |-> [os |-> "darwin", captureMethod |-> c.sc.method,
                 processingStatus |-> "pending"]]

BuildInsertRawWindow(id, c) ==
  [id |-> id, timestamp |-> c.ts,
   appName |-> AppOf(c.aw), windowTitle |-> TitleOf(c.aw),
   tabsCount |-> Len(c.tabs), hasClipboard |-> c.clip # Null,
   screenshotPath |-> c.shotPath, jsonPath |-> JsonPath(id)]
\* the argument of this.database.insertCapture
BuildInsert(id, c) ==
  [id |-> id, timestamp |-> c.ts,
   appName |-> OrUnknown(AppOf(c.aw)), windowTitle |-> OrUnknown(TitleOf(c.aw)),
   tabsCount |-> Len(c.tabs), hasClipboard |-> c.clip # Null,
   screenshotPath |-> c.shotPath, jsonPath |-> JsonPath(id)]

\* the members of activeWindow that JSON.stringify writes: a member whose
\* value is undefined is left out
writtenMembers(aw) ==
  {"app", "title"}
    \cup (IF aw.bundleId = UndefinedStr THEN {} ELSE {"bundleId"})
    \cup (IF aw.screenshot = Undefined THEN {} ELSE {"screenshot"})

\* JSON.stringify(capturedContext, null, 2): the Date becomes its ISO string
\* (toJSON), undefined members are left out, strings, arrays and null are
\* written as they are
Stringify(ctx) ==
  [k |-> "json",
   doc |-> [ctx EXCEPT !.timestamp = [iso |-> ctx.timestamp.date],
                       !.activeWindow =
                         [m \in writtenMembers(ctx.activeWindow) |-> ctx.activeWindow[m]]]]

loadCaptureKeepsString(file) ==
  IF file.k # "json" THEN Null ELSE file.doc
\* an exception reaching the caller
Raised == [k |-> "raised"]
loadCaptureParseThrows(file) ==
  IF file \in {NoFile, ReadError} THEN Null
  ELSE IF file = Corrupt THEN Raised
  ELSE [file.doc EXCEPT !.timestamp = [date |-> file.doc.timestamp.iso]]
\* loadCapture: readFile, JSON.parse, the timestamp string back to a Date; null
\* when either throws
loadCapture(file) ==
  IF file.k # "json" THEN Null
  ELSE [file.doc EXCEPT !.timestamp = [date |-> file.doc.timestamp.iso]]

\* Faults of one deleteCapture call (at most one per call).
Faults == {"none", "getThrows", "unlinkJsonFails", "unlinkShotFails", "deleteThrows"}
DbError == Err("database error")
WriteError == Err("write failed")
\* the message of what a hook passed by the caller throws
HookError == Err("hook failed")

\* record?.screenshot_path, the one member of the record deleteCapture reads
screenshotPathOf(record) == IF record = Null THEN NoPath ELSE record.screenshot_path

\* A deleteCapture call: where it waits (pc), its captureId, the screenshot
\* path of the record it got from the database, the fault it meets and what
\* was stored when it was called.
NoDelete == [pc |-> "idle", id |-> UnknownId, path |-> NoPath, f |-> "none", found |-> {}]

\* deleteCapture(captureId) up to its first await: getCapture, and the unlink of
\* the JSON file is started -- or getCapture threw and the catch has the failure
deleteBegin(rs, id, f, found) ==
  IF f = "getThrows"
    THEN [pc |-> "caught", id |-> id, path |-> NoPath, f |-> f, found |-> found]
    ELSE [pc |-> "json", id |-> id, path |-> screenshotPathOf(getCapture(rs, id)),
          f |-> f, found |-> found]

\* fs.promises.unlink(jsonPath): a missing file is caught and logged
unlinkJson(bs, d) ==
  IF d.id \in DOMAIN bs /\ d.f # "unlinkJsonFails" THEN [bs EXCEPT ![d.id] = NoFile] ELSE bs

\* unlink removes the name only: calls that have the file open (held) go on
\* reading and writing it through their descriptors
orphaned(orph, bs, d, held) ==
  IF d.id \in held /\ unlinkJson(bs, d) # bs THEN [orph EXCEPT ![d.id] = bs[d.id]] ELSE orph

\* if (record?.screenshot_path)
hasScreenshotPath(d) == d.path # NoPath

\* fs.promises.unlink(record.screenshot_path)
unlinkShot(sh, d) ==
  IF d.f # "unlinkShotFails" THEN sh \ {d.path.id} ELSE sh

deleteRowKept(rs, d) ==
  [rows |-> rs, success |-> d.f # "deleteThrows",
   error |-> IF d.f = "deleteThrows" THEN DbError ELSE Undefined]
\* this.database.deleteCapture(captureId); return { success: true } -- or the catch
deleteRow(rs, d) ==
  IF d.f = "deleteThrows"
    THEN [rows |-> rs, success |-> FALSE, error |-> DbError]
    ELSE [rows |-> dbDeleteCapture(rs, d.id), success |-> TRUE, error |-> Undefined]

\* One turn of a deleteCapture call d on the storage st: the unlink it waits for
\* settles and the call goes on to its next await, or to its return (res).
deleteStep(st, d) ==
  CASE d.pc = "json" ->
         [blobs |-> unlinkJson(st.blobs, d),
          orphans |-> orphaned(st.orphans, st.blobs, d, st.held),
          shots |-> st.shots, rows |-> st.rows,
          d |-> [d EXCEPT !.pc = IF hasScreenshotPath(d) THEN "shot" ELSE "row"],
          res |-> Null]
    [] d.pc = "shot" ->
         [blobs |-> st.blobs, orphans |-> st.orphans,
          shots |-> unlinkShot(st.shots, d), rows |-> st.rows,
          d |-> [d EXCEPT !.pc = "row"], res |-> Null]
    [] d.pc = "row" ->
         LET r == deleteRow(st.rows, d)
         IN  [blobs |-> st.blobs, orphans |-> st.orphans,
              shots |-> st.shots, rows |-> r.rows,
              d |-> NoDelete, res |-> [success |-> r.success, error |-> r.error]]
    [] d.pc = "caught" ->
         [blobs |-> st.blobs, orphans |-> st.orphans,
          shots |-> st.shots, rows |-> st.rows,
          d |-> NoDelete, res |-> [success |-> FALSE, error |-> DbError]]

cleanupSelectsInclusive(row, cutoffTime) == row.timestamp <= cutoffTime
\* capture.timestamp < cutoffTime
cleanupSelects(row, cutoffTime) == row.timestamp < cutoffTime

\* A cleanupOldCaptures call: its argument, the cutoff, the captures of
\* allCaptures the loop has still to visit (todo) with the timestamps they
\* were fetched with (fetched), deletedCount, and the deleteCapture call it
\* awaits (d).
NoCleanup == [pc |-> "idle", daysOld |-> 0, cutoffTime |-> 0, todo |-> << >>,
              fetched |-> << >>, deletedCount |-> 0, d |-> NoDelete]

\* the entries of the loop from todo on that pass the test of the loop
cleanupRest(todo, fetched, cutoffTime) ==
  SelectSeq(todo, LAMBDA i : cleanupSelects(fetched[i], cutoffTime))

\* await this.sendToWebhook(...); return { success: true }  -- or the catch
retryResult(res, dbThrew) ==
  IF dbThrew THEN [success |-> FALSE, error |-> DbError]
  ELSE [success |-> TRUE, error |-> Undefined]

\* ------------------------------------------------------------------ inputs
\* the hooks the caller passes: none, both, both with a hide hook that throws,
\* or both with a show hook that throws
HookChoices == {"none", "both", "hideThrows", "showThrows"}

AllBrowsersFail == << ExecFailed, ExecFailed, ExecFailed, ExecFailed >>

\* What the sources give during one capture call.
ScenarioAllFail ==
  [method |-> "hotkey", cb |-> ClipboardThrows,
   appQ |-> ExecFailed, titleQ |-> ExecFailed, tabQs |-> AllBrowsersFail]
ScenarioFull ==
  [method |-> "manual", cb |-> ClipboardRead(<< 0 >>, << 32, 104, 105, 0 >>),
   appQ |-> ExecOut(<< "Safari", "com.apple.Safari" >>), titleQ |-> ExecOut("Inbox"),
   tabQs |-> << ExecOut(<< "https://a.com/1", "A1", "https://b.org/", "B" >>),
                ExecOut(<< "https://a.com/1", "A1 again", "nonsense", "X" >>),
                ExecFailed,
                ExecOut(<< >>) >>]
ScenarioPartial ==
  [method |-> "hotkey", cb |-> ClipboardRead(<< 60, 98, 62 >>, << >>),
   appQ |-> ExecOut(<< "Code", "" >>), titleQ |-> ExecFailed,
   tabQs |-> << ExecFailed, ExecFailed, ExecFailed,
                ExecOut(<< "https://a.com/2", "A2" >>) >>]
\* the frontmost-application query fails, the window-title query answers
ScenarioNoApp ==
  [method |-> "manual", cb |-> ClipboardRead(<< >>, << >>),
   appQ |-> ExecFailed, titleQ |-> ExecOut("Inbox"), tabQs |-> AllBrowsersFail]
Scenarios == {ScenarioAllFail, ScenarioFull, ScenarioPartial, ScenarioNoApp}

\* stdout of one browser script listing the tabs UrlPool[first .. last]
TabParts(first, last) ==
  [k \in 1 .. 2 * (last - first + 1) |->
     IF k % 2 = 1 THEN UrlPool[first + (k - 1) \div 2] ELSE "Tab"]
TabWindows == {<< 1, 30 >>, << 16, 45 >>, << 31, 60 >>}
TabOutputs == {ExecFailed} \cup {ExecOut(TabParts(w[1], w[2])) : w \in TabWindows}

\* Calls that differ in what the four browser scripts give.
TabScenarios ==
  {[ScenarioAllFail EXCEPT !.tabQs = << chrome, safari, firefox, edge >>] :
     chrome \in TabOutputs, safari \in TabOutputs,
     firefox \in {ExecFailed, ExecOut(TabParts(1, 30))},
     edge \in {ExecFailed, ExecOut(<< >>)}}

\* a text of n letters between the characters pre and post
TextOf(pre, n, post) == pre \o [i \in 1 .. n |-> 97] \o post
\* texts whose length is at, just under and just over maxLength, with white
\* space and control characters at their ends
ClipTexts ==
  {TextOf(pre, n, post) :
     pre \in {<< >>, << 32 >>, << 0 >>},
     n \in {maxLength - 1, maxLength, maxLength + 1},
     post \in {<< >>, << 32 >>, << 7 >>, << 98, 10 >>}}

\* Calls that differ in what the clipboard holds: plain text, or html.
ClipScenarios ==
  {[ScenarioAllFail EXCEPT !.cb = ClipboardRead(<< >>, t)] : t \in ClipTexts}
    \cup {[ScenarioAllFail EXCEPT !.cb = ClipboardRead(TextOf(<< >>, n, post), << 120 >>)] :
             n \in {maxLength, maxLength + 1}, post \in {<< >>, << 32 >>}}

\* how the write to the file that writeFile has opened ends
WriteOutcomes == {"ok", "failsPartway"}

\* post outcomes met by the deliveries of the orchestrator
DeliveryOutcomes == {Response(200), Response(404), Response(500)}
DeliveryScripts == SendScripts(DeliveryOutcomes)

\* ------------------------------------------------------------------- state
VARIABLES
  now,            \* Date.now()
  nextId,         \* the identity the next captureContext call draws (uuidv4)
  blobs,          \* captures/<id>.json, as found by its name
  orphans,        \* captures/<id>.json after its name was removed, while a call
                  \* still has it open: what the descriptors reach
  shots,          \* ids whose capture_screenshots/<id>.png exists
  rows,           \* the captures table
  latestCapture,  \* ContextAggregator.latestCapture
  cap,            \* the captureContext calls, by the id they drew
  dlv,            \* ids whose dispatched sendToWebhook is in flight
  rty,            \* the retryWebhook calls in progress
  snd,            \* one WebhookService.send followed post by post
  del,            \* the deleteCapture call of the capture:delete handler in progress
  cln,            \* the cleanupOldCaptures call in progress
  lod,            \* the loadCapture call of the capture:get handler in progress
  ret             \* what the last step returned to its caller, if it returned

vars == << now, nextId, blobs, orphans, shots, rows, latestCapture, cap, dlv, rty, snd,
          del, cln, lod, ret >>

RetrySlots == 1 .. MaxRetryCalls
NoRet == [op |-> "none"]
\* a retryWebhook call: where it waits, its captureId and what the readFile of
\* its loadCapture gave
NoRetry == [pc |-> "idle", id |-> UnknownId, file |-> NoFile]
\* a loadCapture call: where it waits, its id and what its readFile gave
NoLoad == [pc |-> "idle", id |-> UnknownId, file |-> NoFile]
NoSend == [d |-> Idle, outs |-> << >>, res |-> Null]

Init ==
  /\ now = 0
  /\ nextId = 1
  /\ blobs = [i \in Ids |-> NoFile]
  /\ orphans = [i \in Ids |-> NoFile]
  /\ shots = {}
  /\ rows = [i \in Ids |-> NoRow]
  /\ latestCapture = Null
  /\ cap = [i \in Ids |-> NewCall]
  /\ dlv = {}
  /\ rty = [j \in RetrySlots |-> NoRetry]
  /\ snd = NoSend
  /\ del = NoDelete
  /\ cln = NoCleanup
  /\ lod = NoLoad
  /\ ret = NoRet

\* ids a caller can pass: every identity handed out so far, and an unknown one
KnownIds == {i \in Ids : i < nextId} \cup {UnknownId}

\* --------------------------------------------------------- captureContext
uuidv4Repeats(n) == 1
\* const captureId = uuidv4(): the n-th identity drawn, which no earlier draw
\* returned
uuidv4(n) == n

eventsBeforeAwaitHides(h) == IF h = "none" THEN << >> ELSE << "hide" >>
\* the hook and grab events of the part before await Promise.all([...]): none,
\* the screenshot block comes after the await
eventsBeforeAwait(h) == << >>

\* Up to the await of Promise.all: the id and timestamp, the two adapter
\* promises, the synchronous clipboard read.
CaptureStart(sc, h) ==
  /\ nextId \in Ids
  /\ cap' = [cap EXCEPT ![uuidv4(nextId)] =
       [NewCall EXCEPT !.pc = "adapters", !.sc = sc, !.hooks = h, !.ts = now,
                       !.ev = eventsBeforeAwait(h),
                       !.clip = captureClipboard(sc.cb),
                       !.failed = IF sc.cb = ClipboardThrows THEN {"clipboard"} ELSE {}]]
  /\ nextId' = nextId + 1
  /\ ret' = NoRet
  /\ UNCHANGED << now, blobs, shots, rows, latestCapture, dlv, rty, snd, del, cln, lod, orphans >>

ShowEventOnSuccess(c) ==
  IF c.hooks = "none" \/ "screen" \in c.failed THEN c.ev ELSE Append(c.ev, "show")
ShowEventUnlessHideThrew(c) ==
  IF c.hooks \in {"none", "hideThrows"} THEN c.ev ELSE Append(c.ev, "show")
\* finally { if (showWindow) showWindow(); }
ShowEvent(c) == IF c.hooks = "none" THEN c.ev ELSE Append(c.ev, "show")

showThrowsNever(c) == FALSE
\* showWindow() throws: nothing catches it inside the screenshot block, so it
\* leaves the finally for the catch of captureContext
showThrows(c) == c.hooks = "showThrows"

\* finally { showWindow() }, the context is built, latestCapture is set and
\* the JSON write is started -- or the show hook threw and the catch returns
\* the failure
ShowAndAssemble(id, c) ==
  LET c1 == [c EXCEPT !.pc = "write", !.ev = ShowEvent(c)]
  IN  IF showThrows(c)
        THEN /\ cap' = [cap EXCEPT ![id] = DoneCall(FALSE)]
             /\ latestCapture' = latestCapture
             /\ ret' = [op |-> "captureContext", id |-> id, success |-> FALSE,
                        error |-> HookError, ev |-> c1.ev, failed |-> c.failed,
                        hooks |-> c.hooks, write |-> "none", insertThrew |-> FALSE]
        ELSE /\ cap' = [cap EXCEPT ![id] = c1]
             /\ latestCapture' = BuildContext(id, c1)
             /\ ret' = NoRet

\* Promise.all settles, the adapters having got inp from their OS calls;
\* hideWindow(); the 100 ms settle timer is started
AdaptersSettledWith(id, inp) ==
  /\ cap[id].pc = "adapters"
  /\ LET c == [cap[id] EXCEPT
                 !.aw = captureActiveWindow(inp.appQ, inp.titleQ),
                 !.tabs = captureTabs(inp.tabQs),
                 !.failed = @ \cup (IF inp.appQ = ExecFailed /\ inp.titleQ = ExecFailed
                                      THEN {"window"} ELSE {})
                              \cup (IF inp.tabQs = AllBrowsersFail THEN {"tabs"} ELSE {}),
                 !.ev = IF cap[id].hooks = "none" THEN @ ELSE Append(@, "hide")]
     IN  IF c.hooks = "hideThrows"
           THEN ShowAndAssemble(id, [c EXCEPT !.failed = @ \cup {"screen"}])
           ELSE /\ cap' = [cap EXCEPT ![id] = [c EXCEPT !.pc = "settle"]]
                /\ UNCHANGED latestCapture
                /\ ret' = NoRet
  /\ UNCHANGED << now, nextId, blobs, shots, rows, dlv, rty, snd, del, cln, lod, orphans >>

\* the OS calls taken as settled to what the scenario says
AdaptersSettled(id) ==
  /\ cap[id].execs = << >>
  /\ AdaptersSettledWith(id, cap[id].sc)

\* The OS calls followed one by one. The call starts as in CaptureStart, and
\* each of the six commands (application, title, the four browsers) is handed
\* to execWithTimeout.
OsCalls(sc) == << sc.appQ, sc.titleQ >> \o sc.tabQs
CaptureStartExec(sc, h) ==
  /\ nextId \in Ids
  /\ cap' = [cap EXCEPT ![uuidv4(nextId)] =
       [NewCall EXCEPT !.pc = "adapters", !.sc = sc, !.hooks = h, !.ts = now,
                       !.ev = eventsBeforeAwait(h),
                       !.clip = captureClipboard(sc.cb),
                       !.failed = IF sc.cb = ClipboardThrows THEN {"clipboard"} ELSE {},
                       !.execs = [q \in 1 .. 6 |-> execWithTimeout(OsCalls(sc)[q])]]]
  /\ nextId' = nextId + 1
  /\ ret' = NoRet
  /\ UNCHANGED << now, blobs, shots, rows, latestCapture, dlv, rty, snd, del, cln, lod, orphans >>

\* the timer of the q-th command of call id fires
TimerFires(id, q) ==
  /\ q \in DOMAIN cap[id].execs
  /\ cap[id].execs[q].timer = "armed"
  /\ cap' = [cap EXCEPT ![id].execs[q] = timerFires(@)]
  /\ ret' = NoRet
  /\ UNCHANGED << now, nextId, blobs, shots, rows, latestCapture, dlv, rty, snd, del, cln, lod, orphans >>

\* the OS call of the q-th command of call id completes: the callback of exec runs
ExecCompletes(id, q) ==
  /\ q \in DOMAIN cap[id].execs
  /\ ~cap[id].execs[q].called
  /\ cap' = [cap EXCEPT ![id].execs[q] = execCallback(@)]
  /\ ret' = NoRet
  /\ UNCHANGED << now, nextId, blobs, shots, rows, latestCapture, dlv, rty, snd, del, cln, lod, orphans >>

\* what the adapters of call c got from their six promises
Awaited(c) ==
  [c.sc EXCEPT !.appQ = awaitExec(c.execs[1]), !.titleQ = awaitExec(c.execs[2]),
               !.tabQs = [b \in 1 .. 4 |-> awaitExec(c.execs[b + 2])]]

\* every promise has settled, so the adapters return and Promise.all settles
AdaptersSettledExec(id) ==
  /\ cap[id].execs # << >>
  /\ \A q \in DOMAIN cap[id].execs : cap[id].execs[q].state # "pending"
  /\ AdaptersSettledWith(id, Awaited(cap[id]))

\* the timer fires: screenshotPath is set and the screen grab is started
SettleDone(id) ==
  /\ cap[id].pc = "settle"
  /\ cap' = [cap EXCEPT ![id].pc = "grab", ![id].shotPath = ShotPath(id),
                        ![id].ev = Append(@, "grab")]
  /\ ret' = NoRet
  /\ UNCHANGED << now, nextId, blobs, shots, rows, latestCapture, dlv, rty, snd, del, cln, lod, orphans >>

\* screenshot({filename}) settles: the file is there and readFile is started,
\* or it rejected
GrabDone(id, ok) ==
  /\ cap[id].pc = "grab"
  /\ IF ok
       THEN /\ shots' = shots \cup {id}
            /\ cap' = [cap EXCEPT ![id].pc = "read"]
            /\ UNCHANGED latestCapture
            /\ ret' = NoRet
       ELSE /\ ShowAndAssemble(id, [cap[id] EXCEPT !.failed = @ \cup {"screen"}])
            /\ UNCHANGED shots
  /\ UNCHANGED << now, nextId, blobs, rows, dlv, rty, snd, del, cln, lod, orphans >>

\* readFile(screenshotPath) settles
ReadDone(id, ok) ==
  /\ cap[id].pc = "read"
  /\ IF ok /\ id \in shots
       THEN ShowAndAssemble(id, [cap[id] EXCEPT !.b64 = Base64(id)])
       ELSE ShowAndAssemble(id, [cap[id] EXCEPT !.failed = @ \cup {"screen"}])
  /\ UNCHANGED << now, nextId, blobs, shots, rows, dlv, rty, snd, del, cln, lod, orphans >>

insertReachedAlways(w) == TRUE
\* await fs.promises.writeFile(...) did not throw: control reaches insertCapture
insertReached(w) == w = "ok"

\* return { success: true, captureId } -- or the catch:
\* return { success: false, error: error.message }
captureOutcome(w, insertThrew) ==
  IF w # "ok" THEN [success |-> FALSE, error |-> WriteError]
  ELSE IF insertThrew THEN [success |-> FALSE, error |-> DbError]
  ELSE [success |-> TRUE, error |-> Undefined]

\* fs.promises.writeFile opens the file with flag 'w': the file is created
\* empty (or emptied), which does not parse -- or the open fails and there is
\* no file
openFile(file, opens) == IF opens THEN Corrupt ELSE file

\* What the write leaves in the open file: the whole document, or part of it
\* when a write fails. The file grows over several turns; until it is whole it
\* does not parse. No file: the name was unlinked while the file was open, the
\* data go to the file that has no name any more.
writeFile(file, w, doc) ==
  IF file = NoFile THEN NoFile ELSE IF w = "ok" THEN doc ELSE Corrupt

\* The descriptors open on captures/<id>.json: that of the captureContext call
\* of id from the open of its writeFile to the close, that of the loadCapture
\* call and those of the retryWebhook calls from the open of their readFile to
\* the close.
descriptors(id) ==
  (IF id \in Ids /\ (cap[id].pc = "close" \/ (cap[id].pc = "write" /\ cap[id].write = "open"))
     THEN 1 ELSE 0)
    + (IF lod.pc \in {"opened", "read"} /\ lod.id = id THEN 1 ELSE 0)
    + Cardinality({j \in RetrySlots : rty[j].pc \in {"opened", "read"} /\ rty[j].id = id})
\* the files as a deleteCapture call meets them; held: the ids whose JSON file
\* some call has open
Storage == [blobs |-> blobs, orphans |-> orphans,
            held |-> {i \in Ids : descriptors(i) > 0}, shots |-> shots, rows |-> rows]

\* close, open being the number of descriptors before it: a file without a
\* name is gone once no call has it open
closeFile(file, open) == IF open > 1 THEN file ELSE NoFile

\* The open of writeFile is performed: the file is there and empty, the call
\* waits on -- or the open failed, the promise is rejected and the call goes
\* on in a later turn.
WriteOpen(id, opens) ==
  /\ cap[id].pc = "write"
  /\ cap[id].write = "none"
  /\ blobs' = [blobs EXCEPT ![id] = openFile(@, opens)]
  /\ cap' = IF opens THEN [cap EXCEPT ![id].write = "open"]
            ELSE [cap EXCEPT ![id].pc = "insert", ![id].write = "fails"]
  /\ ret' = NoRet
  /\ UNCHANGED << now, nextId, shots, rows, latestCapture, dlv, rty, snd, del, cln, lod, orphans >>

\* The last write to the open file is performed: the document is whole, or the
\* write failed partway. The descriptor is still open; writeFile closes it in
\* its next operation.
WriteDone(id, w) ==
  /\ cap[id].pc = "write"
  /\ cap[id].write = "open"
  /\ blobs' = [blobs EXCEPT ![id] = writeFile(@, w, Stringify(BuildContext(id, cap[id])))]
  /\ orphans' = [orphans EXCEPT ![id] =
                   writeFile(@, w, Stringify(BuildContext(id, cap[id])))]
  /\ cap' = [cap EXCEPT ![id].pc = "close", ![id].write = w]
  /\ ret' = NoRet
  /\ UNCHANGED << now, nextId, shots, rows, latestCapture, dlv, rty, snd, del, cln, lod >>

\* The close of writeFile is performed and its promise settles. The call itself
\* still waits at its await; it goes on in a later turn of the event loop, and
\* other handlers run before that.
WriteClose(id) ==
  /\ cap[id].pc = "close"
  /\ orphans' = [orphans EXCEPT ![id] = closeFile(@, descriptors(id))]
  /\ cap' = [cap EXCEPT ![id].pc = "insert"]
  /\ ret' = NoRet
  /\ UNCHANGED << now, nextId, blobs, shots, rows, latestCapture, dlv, rty, snd, del, cln, lod >>

\* The call goes on after its await: insertCapture, the delivery is dispatched
\* and the call returns -- or the catch returns the failure.
InsertDone(id, dbThrows) ==
  /\ cap[id].pc = "insert"
  /\ LET c == cap[id]
         w == c.write
         insertThrew == insertReached(w) /\ dbThrows
         inserted == insertReached(w) /\ ~dbThrows
         out == captureOutcome(w, insertThrew)
     IN  /\ rows' = IF inserted THEN insertCapture(rows, BuildInsert(id, c)) ELSE rows
         /\ dlv' = IF inserted THEN dlv \cup {id} ELSE dlv
         /\ ret' = [op |-> "captureContext", id |-> id, success |-> out.success,
                    error |-> out.error, ev |-> c.ev, failed |-> c.failed,
                    hooks |-> c.hooks, write |-> w, insertThrew |-> insertThrew]
         /\ cap' = [cap EXCEPT ![id] = DoneCall(out.success)]
  /\ UNCHANGED << now, nextId, blobs, shots, latestCapture, rty, snd, del, cln, lod, orphans >>

\* ----------------------------------------------------------- sendToWebhook
\* The send of the delivery dispatched by the capture of id returns, having met
\* the outcomes outs; updateWebhookStatus runs in the same turn.
afterDeliveryPropagates(c, res, threw) ==
  IF res.success /\ ~threw THEN c ELSE [c EXCEPT !.result = "failed"]
\* this.sendToWebhook(...).catch(error => console.error(...)): whatever the
\* delivery does, the capture call c has returned what it returned
afterDelivery(c, res, threw) == c

DeliveryDone(id, outs, dbThrows) ==
  /\ id \in dlv
  /\ LET a == runSend(sendStart(id), outs)
     IN  /\ rows' = IF dbThrows THEN rows
                    ELSE updateWebhookStatus(rows, id, a.res.success, now)
         /\ ret' = [op |-> "sendToWebhook", id |-> id, send |-> a.res,
                    threw |-> dbThrows]
         /\ cap' = [cap EXCEPT ![id] = afterDelivery(@, a.res, dbThrows)]
  /\ dlv' = dlv \ {id}
  /\ UNCHANGED << now, nextId, blobs, shots, latestCapture, rty, snd, del, cln, lod, orphans >>

\* ----------------------------------------------------------------- readFile
\* fs.promises.readFile(jsonPath, 'utf-8') opens the file by its name, takes
\* its size, reads through the descriptor and closes it, each in a turn of its
\* own. A call that reads is [pc, id, file]: pc "load" while the open is
\* outstanding; "opened" once it holds the descriptor, file being the file as
\* it was opened and sized; "read" once the reads are done and the close is
\* outstanding, file being what was read, or ReadError; "loaded" once the
\* promise has settled, file being NoFile when the open found no such name and
\* ReadError when the open failed otherwise.

\* the open: a missing name (ENOENT) or another failure of the open rejects
\* the promise, otherwise the call holds a descriptor
openRead(call, file, opens) ==
  IF file = NoFile THEN [call EXCEPT !.pc = "loaded", !.file = NoFile]
  ELSE IF ~opens THEN [call EXCEPT !.pc = "loaded", !.file = ReadError]
  ELSE [call EXCEPT !.pc = "opened", !.file = file]

\* how the reads of an open file end: the whole file read; a part of it only
\* (the file was still being written as its size was taken); a read failing
ReadOutcomes == {"whole", "short", "fails"}

\* the file a descriptor on captures/<id>.json reaches: the one under the
\* name, or the one whose name has been removed since the open
reached(bs, orph, id) == IF BlobOf(bs, id) # NoFile THEN bs[id] ELSE BlobOf(orph, id)

readByName(call, bs, orph, r) ==
  [call EXCEPT !.pc = "read", !.file = BlobOf(bs, call.id)]
\* the reads: what the descriptor reaches now, or only a part of it, or the
\* error of a read
readThrough(call, bs, orph, r) ==
  [call EXCEPT !.pc = "read",
               !.file = IF r = "fails" THEN ReadError
                        ELSE IF call.file = Corrupt /\ r = "short" THEN Corrupt
                        ELSE reached(bs, orph, call.id)]

\* ------------------------------------------------------------ retryWebhook
\* retryWebhook(id) up to the await of loadCapture's readFile
RetryStart(j, id) ==
  /\ rty[j].pc = "idle"
  /\ rty' = [rty EXCEPT ![j] = [pc |-> "load", id |-> id, file |-> NoFile]]
  /\ ret' = NoRet
  /\ UNCHANGED << now, nextId, blobs, shots, rows, latestCapture, cap, dlv, snd, del, cln, lod, orphans >>

\* the open of its readFile is performed
RetryOpen(j, opens) ==
  /\ rty[j].pc = "load"
  /\ rty' = [rty EXCEPT ![j] = openRead(@, BlobOf(blobs, rty[j].id), opens)]
  /\ ret' = NoRet
  /\ UNCHANGED << now, nextId, blobs, shots, rows, latestCapture, cap, dlv, snd, del, cln, lod, orphans >>

\* the reads of its readFile are performed
RetryRead(j, r) ==
  /\ rty[j].pc = "opened"
  /\ rty' = [rty EXCEPT ![j] = readThrough(@, blobs, orphans, r)]
  /\ ret' = NoRet
  /\ UNCHANGED << now, nextId, blobs, shots, rows, latestCapture, cap, dlv, snd, del, cln, lod, orphans >>

\* the close of its readFile is performed and the promise settles: the call
\* has what was read and goes on in a later turn
RetryClose(j) ==
  /\ rty[j].pc = "read"
  /\ rty' = [rty EXCEPT ![j].pc = "loaded"]
  /\ orphans' = [orphans EXCEPT ![rty[j].id] =
                   closeFile(@, descriptors(rty[j].id))]
  /\ ret' = NoRet
  /\ UNCHANGED << now, nextId, blobs, shots, rows, latestCapture, cap, dlv, snd, del, cln, lod >>

\* the call goes on with what was read: not found, or send is started
RetryLoaded(j) ==
  /\ rty[j].pc = "loaded"
  /\ LET id == rty[j].id
         capture == loadCapture(rty[j].file)
     IN  IF capture = Null
           THEN /\ rty' = [rty EXCEPT ![j] = NoRetry]
                /\ ret' = [op |-> "retryWebhook", id |-> id, success |-> FALSE,
                           error |-> Err("Capture not found"), send |-> Null]
           ELSE /\ rty' = [rty EXCEPT ![j].pc = "send", ![j].file = NoFile]
                /\ ret' = NoRet
  /\ UNCHANGED << now, nextId, blobs, shots, rows, latestCapture, cap, dlv, snd, del, cln, lod, orphans >>

\* the send returns, updateWebhookStatus runs and retryWebhook returns
RetryDone(j, outs, dbThrows) ==
  /\ rty[j].pc = "send"
  /\ LET id == rty[j].id
         a == runSend(sendStart(id), outs)
     IN  /\ rows' = IF dbThrows THEN rows
                    ELSE updateWebhookStatus(rows, id, a.res.success, now)
         /\ ret' = [op |-> "retryWebhook", id |-> id,
                    success |-> retryResult(a.res, dbThrows).success,
                    error |-> retryResult(a.res, dbThrows).error,
                    send |-> a.res]
  /\ rty' = [rty EXCEPT ![j] = NoRetry]
  /\ UNCHANGED << now, nextId, blobs, shots, latestCapture, cap, dlv, snd, del, cln, lod, orphans >>

\* ------------------------------------------------------------- loadCapture
\* loadCapture(id) is called by the capture:get handler and runs to the await
\* of its readFile
LoadCapture(id) ==
  /\ lod.pc = "idle"
  /\ lod' = [pc |-> "load", id |-> id, file |-> NoFile]
  /\ ret' = NoRet
  /\ UNCHANGED << now, nextId, blobs, shots, rows, latestCapture, cap, dlv, rty, snd, del, cln, orphans >>

\* the open of its readFile is performed
LoadOpen(opens) ==
  /\ lod.pc = "load"
  /\ lod' = openRead(lod, BlobOf(blobs, lod.id), opens)
  /\ ret' = NoRet
  /\ UNCHANGED << now, nextId, blobs, shots, rows, latestCapture, cap, dlv, rty, snd, del, cln, orphans >>

\* the reads of its readFile are performed
LoadRead(r) ==
  /\ lod.pc = "opened"
  /\ lod' = readThrough(lod, blobs, orphans, r)
  /\ ret' = NoRet
  /\ UNCHANGED << now, nextId, blobs, shots, rows, latestCapture, cap, dlv, rty, snd, del, cln, orphans >>

\* the close of its readFile is performed and the promise settles
LoadClose ==
  /\ lod.pc = "read"
  /\ lod' = [lod EXCEPT !.pc = "loaded"]
  /\ orphans' = [orphans EXCEPT ![lod.id] =
                   closeFile(@, descriptors(lod.id))]
  /\ ret' = NoRet
  /\ UNCHANGED << now, nextId, blobs, shots, rows, latestCapture, cap, dlv, rty, snd, del, cln >>

\* the call goes on with what was read: JSON.parse, the timestamp, and the
\* record is returned -- or the catch returns null
LoadReturn ==
  /\ lod.pc = "loaded"
  /\ lod' = NoLoad
  /\ ret' = [op |-> "loadCapture", id |-> lod.id, file |-> lod.file,
             value |-> loadCapture(lod.file)]
  /\ UNCHANGED << now, nextId, blobs, shots, rows, latestCapture, cap, dlv, rty, snd, del, cln, orphans >>

\* ----------------------------------------------------------- deleteCapture
\* which of the three parts of capture id are stored
Stored(id) ==
  (IF BlobOf(blobs, id) # NoFile THEN {"blob"} ELSE {})
    \cup (IF id \in shots THEN {"screenshot"} ELSE {})
    \cup (IF RowOf(rows, id) # NoRow THEN {"row"} ELSE {})

\* a fault needs something to fail on: an unlink fails only on a file that is there
FaultApplies(id, f) ==
  CASE f = "unlinkJsonFails" -> BlobOf(blobs, id) # NoFile
    [] f = "unlinkShotFails" ->
         /\ RowOf(rows, id) # NoRow
         /\ rows[id].screenshot_path # NoPath
         /\ rows[id].screenshot_path.id \in shots
    [] OTHER -> TRUE

\* deleteCapture(id) is called by the capture:delete handler and runs to its
\* first await
DeleteCapture(id, f) ==
  /\ del.pc = "idle"
  /\ FaultApplies(id, f)
  /\ del' = deleteBegin(rows, id, f, Stored(id))
  /\ ret' = NoRet
  /\ UNCHANGED << now, nextId, blobs, shots, rows, latestCapture, cap, dlv, rty, snd, cln, lod, orphans >>

\* the call of the handler takes its next turn
DeleteStep ==
  /\ del.pc # "idle"
  /\ LET r == deleteStep(Storage, del)
     IN  /\ blobs' = r.blobs
         /\ orphans' = r.orphans
         /\ shots' = r.shots
         /\ rows' = r.rows
         /\ del' = r.d
         /\ ret' = IF r.res = Null THEN NoRet
                   ELSE [op |-> "deleteCapture", id |-> del.id, success |-> r.res.success,
                         error |-> r.res.error, fault |-> del.f, found |-> del.found]
  /\ UNCHANGED << now, nextId, latestCapture, cap, dlv, rty, snd, cln, lod >>

\* ------------------------------------------------------ cleanupOldCaptures
\* How a cleanupOldCaptures call ends, with the cutoff and the rows it worked
\* from: it returns deletedCount, or (threw) getCaptures or vacuum threw and
\* the promise is rejected, deletedCount being what the loop had counted.
CleanupResult(daysOld, cutoffTime, fetched, deletedCount, threw) ==
  [op |-> "cleanupOldCaptures", daysOld |-> daysOld, cutoffTime |-> cutoffTime,
   fetched |-> fetched, deletedCount |-> deletedCount, threw |-> threw]

\* cleanupOldCaptures(daysOld) is called: the cutoff, getCaptures(1000), and the
\* loop up to the first deleteCapture it awaits -- or to the return when no
\* capture is older than the cutoff (deletedCount is 0 and vacuum is not
\* called) -- or getCaptures throws and the call is rejected at once
CleanupOldCaptures(daysOld, getThrows) ==
  /\ cln.pc = "idle"
  /\ LET cutoffTime == now - daysOld * DayMs
     IN  \E all \in getCaptures(rows, QueryLimit) :
           LET todo == cleanupRest(all, rows, cutoffTime)
           IN  IF getThrows
                 THEN /\ cln' = cln
                      /\ ret' = CleanupResult(daysOld, cutoffTime, << >>, 0, TRUE)
               ELSE IF todo = << >>
                 THEN /\ cln' = cln
                      /\ ret' = CleanupResult(daysOld, cutoffTime, rows, 0, FALSE)
                 ELSE \E f \in Faults :
                        /\ FaultApplies(Head(todo), f)
                        /\ cln' = [pc |-> "run", daysOld |-> daysOld,
                                   cutoffTime |-> cutoffTime, todo |-> todo,
                                   fetched |-> rows, deletedCount |-> 0,
                                   d |-> deleteBegin(rows, Head(todo), f, Stored(Head(todo)))]
                        /\ ret' = NoRet
  /\ UNCHANGED << now, nextId, blobs, shots, rows, latestCapture, cap, dlv, rty, snd, del, lod, orphans >>

\* The deleteCapture call that cleanupOldCaptures awaits takes its next turn.
\* When it returns, whatever it returns, deletedCount++ and the loop goes on to
\* the next deleteCapture, or the loop is over: deletedCount > 0, vacuum() is
\* called, and cleanupOldCaptures returns -- or is rejected when vacuum throws.
CleanupStep(vacuumThrows) ==
  /\ cln.pc = "run"
  /\ LET r == deleteStep(Storage, cln.d)
         todo == Tail(cln.todo)
         deletedCount == cln.deletedCount + 1
     IN  /\ blobs' = r.blobs
         /\ orphans' = r.orphans
         /\ shots' = r.shots
         /\ rows' = r.rows
         /\ IF r.res = Null
              THEN /\ cln' = [cln EXCEPT !.d = r.d]
                   /\ ret' = NoRet
            ELSE IF todo = << >>
              THEN /\ cln' = NoCleanup
                   /\ ret' = CleanupResult(cln.daysOld, cln.cutoffTime, cln.fetched,
                                           deletedCount, vacuumThrows)
            ELSE \E f \in Faults :
                   /\ FaultApplies(Head(todo), f)
                   /\ cln' = [cln EXCEPT !.todo = todo, !.deletedCount = deletedCount,
                                         !.d = deleteBegin(r.rows, Head(todo), f,
                                                           Stored(Head(todo)))]
                   /\ ret' = NoRet
  /\ UNCHANGED << now, nextId, latestCapture, cap, dlv, rty, snd, del, lod >>

\* DatabaseHelper.deleteOldCaptures(daysOld) is called on the database helper:
\* the rows older than the cutoff go in one statement, their blobs and
\* screenshot files stay -- or the statement throws, the method throws with it
\* and the table is as it was. It is a public method; no handler of the
\* repository calls it.
DeleteOldCaptures(daysOld, dbThrows) ==
  /\ LET r == deleteOldCaptures(rows, daysOld, now)
     IN  /\ rows' = IF dbThrows THEN rows ELSE r.rows
         /\ ret' = [op |-> "deleteOldCaptures", daysOld |-> daysOld,
                    changes |-> IF dbThrows THEN 0 ELSE r.changes, threw |-> dbThrows]
  /\ UNCHANGED << now, nextId, blobs, shots, latestCapture, cap, dlv, rty, snd, del, cln, lod, orphans >>

\* the caller takes the value the last step returned
Observe ==
  /\ ret # NoRet
  /\ ret' = NoRet
  /\ UNCHANGED << now, nextId, blobs, shots, rows, latestCapture, cap, dlv, rty, snd, del, cln, lod, orphans >>

\* ------------------------------------------------------------------- clock
Tick ==
  /\ now < MaxDay * DayMs
  /\ now' = now + DayMs
  /\ ret' = NoRet
  /\ UNCHANGED << nextId, blobs, shots, rows, latestCapture, cap, dlv, rty, snd, del, cln, lod, orphans >>

\* ------------------------------------------------------ WebhookService.send
\* One send followed post by post; outs is the outcomes its posts have met.
SendOutcomes ==
  {Response(200), Response(400), Response(404), Response(499), Response(500),
   Response(503), NoResponse("Network Error"), NoResponse("timeout of 10000ms exceeded"),
   NoResponse("")}

SendCall ==
  /\ snd.d.pc = "idle"
  /\ snd.res = Null
  /\ snd' = [d |-> sendStart(UnknownId), outs |-> << >>, res |-> Null]
  /\ UNCHANGED << now, nextId, blobs, shots, rows, latestCapture, cap, dlv, rty, del, cln, ret, lod, orphans >>

SendPostSettles(o) ==
  /\ snd.d.pc = "post"
  /\ snd.res = Null
  /\ LET a == sendAttempt(snd.d, o)
     IN  snd' = [d |-> a.d, outs |-> Append(snd.outs, o), res |-> a.res]
  /\ UNCHANGED << now, nextId, blobs, shots, rows, latestCapture, cap, dlv, rty, del, cln, ret, lod, orphans >>

SendWakes ==
  /\ snd.d.pc = "sleep"
  /\ snd' = [snd EXCEPT !.d = sendWake(@)]
  /\ UNCHANGED << now, nextId, blobs, shots, rows, latestCapture, cap, dlv, rty, del, cln, ret, lod, orphans >>

NextSend ==
  \/ SendCall
  \/ \E o \in SendOutcomes : SendPostSettles(o)
  \/ SendWakes

\* WebhookService.send on its own
SpecSend == Init /\ [][NextSend]_vars

\* no captureContext call is between its first await and its return
NoCaptureRunning == \A i \in Ids : cap[i].pc \in {"new", "done"}

\* no deleteCapture and no cleanupOldCaptures call is in progress
NoDeletionRunning == del.pc = "idle" /\ cln.pc = "idle"

\* ------------------------------------------------------------ specifications
\* The capture pipeline: captureContext calls, one after the other, over every
\* scenario and hook choice, their writes and the deliveries they dispatch. A
\* step is taken once the caller has taken what the step before it returned.
NextCapture ==
  \/ Observe
  \/ ret = NoRet /\ nextId <= MaxCalls /\ NoCaptureRunning
       /\ \E sc \in Scenarios, h \in HookChoices : CaptureStart(sc, h)
  \/ ret = NoRet /\ \E id \in Ids : AdaptersSettled(id)
  \/ ret = NoRet /\ \E id \in Ids : SettleDone(id)
  \/ ret = NoRet /\ \E id \in Ids, ok \in BOOLEAN : GrabDone(id, ok)
  \/ ret = NoRet /\ \E id \in Ids, ok \in BOOLEAN : ReadDone(id, ok)
  \/ ret = NoRet /\ \E id \in Ids, opens \in BOOLEAN : WriteOpen(id, opens)
  \/ ret = NoRet /\ \E id \in Ids, w \in WriteOutcomes : WriteDone(id, w)
  \/ ret = NoRet /\ \E id \in Ids : WriteClose(id)
  \/ ret = NoRet /\ \E id \in Ids, dbThrows \in BOOLEAN : InsertDone(id, dbThrows)
  \/ ret = NoRet /\ \E id \in Ids, outs \in DeliveryScripts, dbThrows \in BOOLEAN :
                      DeliveryDone(id, outs, dbThrows)

SpecCapture == Init /\ [][NextCapture]_vars

\* Reading back: captureContext calls of two scenarios, one after the other,
\* under every outcome of the grab, the write and the insert, with loadCapture
\* and deleteCapture calls followed turn by turn alongside them.
NextLoad ==
  \/ Observe
  \/ ret = NoRet /\ nextId <= MaxCalls /\ NoCaptureRunning
       /\ \E sc \in {ScenarioFull, ScenarioPartial}, h \in {"none"} : CaptureStart(sc, h)
  \/ ret = NoRet /\ \E id \in Ids : AdaptersSettled(id)
  \/ ret = NoRet /\ \E id \in Ids : SettleDone(id)
  \/ ret = NoRet /\ \E id \in Ids, ok \in BOOLEAN : GrabDone(id, ok)
  \/ ret = NoRet /\ \E id \in Ids, ok \in {TRUE} : ReadDone(id, ok)
  \/ ret = NoRet /\ \E id \in Ids, opens \in BOOLEAN : WriteOpen(id, opens)
  \/ ret = NoRet /\ \E id \in Ids, w \in WriteOutcomes : WriteDone(id, w)
  \/ ret = NoRet /\ \E id \in Ids : WriteClose(id)
  \/ ret = NoRet /\ \E id \in Ids, dbThrows \in BOOLEAN : InsertDone(id, dbThrows)
  \/ ret = NoRet /\ \E id \in KnownIds : LoadCapture(id)
  \/ ret = NoRet /\ \E opens \in BOOLEAN : LoadOpen(opens)
  \/ ret = NoRet /\ \E r \in ReadOutcomes : LoadRead(r)
  \/ ret = NoRet /\ LoadClose
  \/ ret = NoRet /\ LoadReturn
  \/ ret = NoRet /\ \E id \in KnownIds, f \in {"none"} : DeleteCapture(id, f)
  \/ ret = NoRet /\ DeleteStep

SpecLoad == Init /\ [][NextLoad]_vars

\* no delivery, retryWebhook call or deleteCapture call is in progress
NothingInFlight ==
  dlv = {} /\ del.pc = "idle" /\ \A j \in RetrySlots : rty[j].pc = "idle"

\* no retryWebhook call is between its call and the start of its send
NoRetryReading == \A k \in RetrySlots : rty[k].pc \in {"idle", "send"}

\* Delivery status: the captures of one scenario, each started once nothing of
\* the earlier ones is in flight; their deliveries, retryWebhook calls and
\* deleteCapture calls followed turn by turn, all running alongside the
\* capture and each other. A retryWebhook call is made once the calls before it
\* have read their file; their sends overlap.
NextDelivery ==
  \/ Observe
  \/ ret = NoRet /\ nextId <= MaxDelivered /\ NoCaptureRunning /\ NothingInFlight
       /\ \E h \in {"none"} : CaptureStart(ScenarioFull, h)
  \/ ret = NoRet /\ \E id \in Ids : AdaptersSettled(id)
  \/ ret = NoRet /\ \E id \in Ids : SettleDone(id)
  \/ ret = NoRet /\ \E id \in Ids, ok \in {TRUE} : GrabDone(id, ok)
  \/ ret = NoRet /\ \E id \in Ids, ok \in {TRUE} : ReadDone(id, ok)
  \/ ret = NoRet /\ \E id \in Ids, opens \in BOOLEAN : WriteOpen(id, opens)
  \/ ret = NoRet /\ \E id \in Ids, w \in WriteOutcomes : WriteDone(id, w)
  \/ ret = NoRet /\ \E id \in Ids : WriteClose(id)
  \/ ret = NoRet /\ \E id \in Ids, dbThrows \in BOOLEAN : InsertDone(id, dbThrows)
  \/ ret = NoRet /\ \E id \in Ids, outs \in DeliveryScripts, dbThrows \in BOOLEAN :
                      DeliveryDone(id, outs, dbThrows)
  \/ ret = NoRet /\ NoRetryReading
       /\ \E j \in RetrySlots, id \in KnownIds : RetryStart(j, id)
  \/ ret = NoRet /\ \E j \in RetrySlots, opens \in BOOLEAN : RetryOpen(j, opens)
  \/ ret = NoRet /\ \E j \in RetrySlots, r \in ReadOutcomes : RetryRead(j, r)
  \/ ret = NoRet /\ \E j \in RetrySlots : RetryClose(j)
  \/ ret = NoRet /\ \E j \in RetrySlots : RetryLoaded(j)
  \/ ret = NoRet /\ \E j \in RetrySlots, outs \in DeliveryScripts, dbThrows \in BOOLEAN :
                      RetryDone(j, outs, dbThrows)
  \/ ret = NoRet /\ \E id \in KnownIds, f \in {"none"} : DeleteCapture(id, f)
  \/ ret = NoRet /\ DeleteStep

SpecDelivery == Init /\ [][NextDelivery]_vars

\* Deletion and retention: captures taken one after the other on different
\* days; then deleteCapture, cleanupOldCaptures and deleteOldCaptures calls,
\* one at a time, the first two followed turn by turn, under storage faults.
NextCleanup ==
  \/ Observe
  \/ ret = NoRet /\ NoCaptureRunning /\ NoDeletionRunning
       /\ \E h \in {"none"} : CaptureStart(ScenarioAllFail, h)
  \/ ret = NoRet /\ \E id \in Ids : AdaptersSettled(id)
  \/ ret = NoRet /\ \E id \in Ids : SettleDone(id)
  \/ ret = NoRet /\ \E id \in Ids, ok \in BOOLEAN : GrabDone(id, ok)
  \/ ret = NoRet /\ \E id \in Ids, ok \in {TRUE} : ReadDone(id, ok)
  \/ ret = NoRet /\ \E id \in Ids, opens \in BOOLEAN : WriteOpen(id, opens)
  \/ ret = NoRet /\ \E id \in Ids, w \in {"ok"} : WriteDone(id, w)
  \/ ret = NoRet /\ \E id \in Ids : WriteClose(id)
  \/ ret = NoRet /\ \E id \in Ids, dbThrows \in BOOLEAN : InsertDone(id, dbThrows)
  \/ ret = NoRet /\ NoCaptureRunning /\ NoDeletionRunning
       /\ \E id \in KnownIds, f \in Faults : DeleteCapture(id, f)
  \/ ret = NoRet /\ DeleteStep
  \/ ret = NoRet /\ NoCaptureRunning /\ NoDeletionRunning
       /\ \E daysOld \in 0 .. MaxDaysOld, getThrows \in BOOLEAN :
            CleanupOldCaptures(daysOld, getThrows)
  \/ ret = NoRet /\ \E vacuumThrows \in BOOLEAN : CleanupStep(vacuumThrows)
  \/ ret = NoRet /\ NoCaptureRunning /\ NoDeletionRunning
       /\ \E daysOld \in 0 .. MaxDaysOld, dbThrows \in BOOLEAN :
            DeleteOldCaptures(daysOld, dbThrows)
  \/ ret = NoRet /\ Tick

SpecCleanup == Init /\ [][NextCleanup]_vars

\* Tab aggregation: sequential captureContext calls over the tab scenarios, the
\* screen grab failing and the storage working.
NextTabs ==
  \/ Observe
  \/ ret = NoRet /\ nextId <= MaxCalls /\ NoCaptureRunning /\ dlv = {}
       /\ \E sc \in TabScenarios, h \in {"none"} : CaptureStart(sc, h)
  \/ ret = NoRet /\ \E id \in Ids : AdaptersSettled(id)
  \/ ret = NoRet /\ \E id \in Ids : SettleDone(id)
  \/ ret = NoRet /\ \E id \in Ids, ok \in {FALSE} : GrabDone(id, ok)
  \/ ret = NoRet /\ \E id \in Ids, opens \in {TRUE} : WriteOpen(id, opens)
  \/ ret = NoRet /\ \E id \in Ids, w \in {"ok"} : WriteDone(id, w)
  \/ ret = NoRet /\ \E id \in Ids : WriteClose(id)
  \/ ret = NoRet /\ \E id \in Ids, dbThrows \in {FALSE} : InsertDone(id, dbThrows)
  \/ ret = NoRet /\ \E id \in Ids, outs \in {<< Response(200) >>}, dbThrows \in {FALSE} :
                      DeliveryDone(id, outs, dbThrows)

SpecTabs == Init /\ [][NextTabs]_vars

\* Clipboard sanitizing: sequential captureContext calls over the clipboard
\* scenarios, the screen grab failing and the storage working.
NextClipboard ==
  \/ Observe
  \/ ret = NoRet /\ nextId <= MaxCalls /\ NoCaptureRunning /\ dlv = {}
       /\ \E sc \in ClipScenarios, h \in {"none"} : CaptureStart(sc, h)
  \/ ret = NoRet /\ \E id \in Ids : AdaptersSettled(id)
  \/ ret = NoRet /\ \E id \in Ids : SettleDone(id)
  \/ ret = NoRet /\ \E id \in Ids, ok \in {FALSE} : GrabDone(id, ok)
  \/ ret = NoRet /\ \E id \in Ids, opens \in {TRUE} : WriteOpen(id, opens)
  \/ ret = NoRet /\ \E id \in Ids, w \in {"ok"} : WriteDone(id, w)
  \/ ret = NoRet /\ \E id \in Ids : WriteClose(id)
  \/ ret = NoRet /\ \E id \in Ids, dbThrows \in {FALSE} : InsertDone(id, dbThrows)
  \/ ret = NoRet /\ \E id \in Ids, outs \in {<< Response(200) >>}, dbThrows \in {FALSE} :
                      DeliveryDone(id, outs, dbThrows)

SpecClipboard == Init /\ [][NextClipboard]_vars

\* Concurrent captures: captureContext calls of two scenarios whose steps
\* interleave freely, their writes and the deliveries they dispatch.
NextRace ==
  \/ Observe
  \/ ret = NoRet /\ nextId <= MaxCaptures
       /\ \E sc \in {ScenarioFull, ScenarioPartial}, h \in {"none"} : CaptureStart(sc, h)
  \/ ret = NoRet /\ \E id \in Ids : AdaptersSettled(id)
  \/ ret = NoRet /\ \E id \in Ids : SettleDone(id)
  \/ ret = NoRet /\ \E id \in Ids, ok \in BOOLEAN : GrabDone(id, ok)
  \/ ret = NoRet /\ \E id \in Ids, ok \in {TRUE} : ReadDone(id, ok)
  \/ ret = NoRet /\ \E id \in Ids, opens \in BOOLEAN : WriteOpen(id, opens)
  \/ ret = NoRet /\ \E id \in Ids, w \in WriteOutcomes : WriteDone(id, w)
  \/ ret = NoRet /\ \E id \in Ids : WriteClose(id)
  \/ ret = NoRet /\ \E id \in Ids, dbThrows \in BOOLEAN : InsertDone(id, dbThrows)
  \/ ret = NoRet /\ \E id \in Ids, outs \in {<< Response(200) >>}, dbThrows \in {FALSE} :
                      DeliveryDone(id, outs, dbThrows)

SpecRace == Init /\ [][NextRace]_vars

\* Adapter timeouts: sequential captureContext calls whose six OS calls are
\* followed one by one, each racing its timer, under every outcome of the
\* grab, the write and the insert.
NextTimeout ==
  \/ Observe
  \/ ret = NoRet /\ nextId <= MaxCalls /\ NoCaptureRunning /\ dlv = {}
       /\ \E sc \in {ScenarioFull}, h \in {"both"} : CaptureStartExec(sc, h)
  \/ ret = NoRet /\ \E id \in Ids, q \in 1 .. 6 : TimerFires(id, q)
  \/ ret = NoRet /\ \E id \in Ids, q \in 1 .. 6 : ExecCompletes(id, q)
  \/ ret = NoRet /\ \E id \in Ids : AdaptersSettledExec(id)
  \/ ret = NoRet /\ \E id \in Ids : SettleDone(id)
  \/ ret = NoRet /\ \E id \in Ids, ok \in BOOLEAN : GrabDone(id, ok)
  \/ ret = NoRet /\ \E id \in Ids, ok \in BOOLEAN : ReadDone(id, ok)
  \/ ret = NoRet /\ \E id \in Ids, opens \in BOOLEAN : WriteOpen(id, opens)
  \/ ret = NoRet /\ \E id \in Ids, w \in WriteOutcomes : WriteDone(id, w)
  \/ ret = NoRet /\ \E id \in Ids : WriteClose(id)
  \/ ret = NoRet /\ \E id \in Ids, dbThrows \in BOOLEAN : InsertDone(id, dbThrows)
  \/ ret = NoRet /\ \E id \in Ids, outs \in {<< Response(200) >>}, dbThrows \in {FALSE} :
                      DeliveryDone(id, outs, dbThrows)

SpecTimeout == Init /\ [][NextTimeout]_vars

\* The steps of a capture call that the event loop runs once they are ready: a
\* timer that is armed fires (setTimeout), a settled promise is taken up by the
\* call awaiting it, a file operation handed to the thread pool is performed,
\* and a caller takes what it was returned. The screen grab is not among them:
\* await screenshot(...) waits for an external program and no timer bounds it.
CaptureProgress ==
  \/ Observe
  \/ ret = NoRet /\ \E id \in Ids, q \in 1 .. 6 : TimerFires(id, q)
  \/ ret = NoRet /\ \E id \in Ids : AdaptersSettledExec(id)
  \/ ret = NoRet /\ \E id \in Ids : SettleDone(id)
  \/ ret = NoRet /\ \E id \in Ids, ok \in BOOLEAN : ReadDone(id, ok)
  \/ ret = NoRet /\ \E id \in Ids, opens \in BOOLEAN : WriteOpen(id, opens)
  \/ ret = NoRet /\ \E id \in Ids, w \in WriteOutcomes : WriteDone(id, w)
  \/ ret = NoRet /\ \E id \in Ids : WriteClose(id)
  \/ ret = NoRet /\ \E id \in Ids, dbThrows \in BOOLEAN : InsertDone(id, dbThrows)

\* The same under fair scheduling: while one of these steps is ready, one of
\* them is taken. Nothing is assumed of the OS calls of the adapters, of the
\* screen grab nor of the deliveries: they may never complete.
SpecTimeoutFair == Init /\ [][NextTimeout]_vars /\ WF_vars(CaptureProgress)

\* ================================================================== claims
AllSources == {"window", "tabs", "clipboard", "screen"}
HasBlob(id) == BlobOf(blobs, id) # NoFile
HasRow(id) == RowOf(rows, id) # NoRow

\* C1: after a captureContext call has returned, the JSON blob of its id exists
\* exactly when its index row exists.
C1_NoPartialWrite ==
  ret.op = "captureContext" => (HasBlob(ret.id) <=> HasRow(ret.id))

\* C2: a row whose webhook_sent is 1 keeps webhook_sent = 1 in the next state,
\* as long as the row exists.
C2_WebhookSentMonotonic ==
  [][\A i \in Ids :
       (HasRow(i) /\ rows[i].webhook_sent = 1 /\ RowOf(rows', i) # NoRow)
         => rows'[i].webhook_sent = 1]_vars

\* C3: a retryWebhook that performed a send, the database not throwing, returns
\* that send's outcome: the same success, and the send's error when it failed.
C3_RetryReturnsSendOutcome ==
  (ret.op = "retryWebhook" /\ ret.send # Null /\ ret.error # DbError)
    => /\ ret.success = ret.send.success
       /\ ~ret.send.success => ret.error = ret.send.error

\* C4: retryWebhook(id) for an id whose blob is absent when the call opens it,
\* or whose blob does not parse as the call reads it, returns {success: false,
\* error: "Capture not found"}; up to that return the call starts no send,
\* dispatches nothing and leaves the table as it was. An id that never had a
\* blob gets no other answer. (A blob that is there and cannot be opened or
\* read gets the same answer.)
NotFound(id) ==
  [op |-> "retryWebhook", id |-> id, success |-> FALSE,
   error |-> Err("Capture not found"), send |-> Null]
C4_RetryNotFound ==
  /\ [](ret.op = "retryWebhook" /\ ret.id = UnknownId => ret = NotFound(UnknownId))
  /\ [][\A j \in RetrySlots :
          LET id == rty[j].id
              turn == rty'[j] # rty[j]
          IN  /\ (rty[j].pc = "load" /\ turn /\ ~HasBlob(id))
                   => rty'[j] = [pc |-> "loaded", id |-> id, file |-> NoFile]
              /\ (rty[j].pc = "opened" /\ turn /\ reached(blobs, orphans, id) = Corrupt)
                   => /\ rty'[j].pc = "read" /\ rty'[j].id = id
                      /\ rty'[j].file \in {Corrupt, ReadError}
              /\ (rty[j].pc = "read" /\ turn)
                   => rty'[j] = [pc |-> "loaded", id |-> id, file |-> rty[j].file]
              /\ (rty[j].pc = "loaded" /\ turn /\ rty[j].file \in {NoFile, Corrupt, ReadError})
                   => ret' = NotFound(id) /\ rty'[j] = NoRetry
              /\ (rty[j].pc \in {"load", "opened", "read", "loaded"} /\ turn
                    /\ rty'[j].pc # "send")
                   => dlv' = dlv /\ rows' = rows /\ snd' = snd]_vars

C4_Witness ==
  /\ ret.op = "retryWebhook"
  /\ ret = NotFound(ret.id)
  /\ ~HasBlob(ret.id)
  /\ HasRow(ret.id)
  /\ rows[ret.id].webhook_sent = 1

\* a failure send retries on: no response at all, or a 5xx response
Retryable(o) == o.k = "error" \/ o.status >= 500
AllRetryable(outs) == \A i \in DOMAIN outs : Retryable(outs[i])

\* C5: while every post fails retryably, send sleeps 1000 ms after the first
\* failure and 2000 ms after the second, and after the third failure it returns
\* failure with 3 posts made and no third sleep.
C5_RetryableExhausts ==
  AllRetryable(snd.outs) =>
    /\ Len(snd.outs) = 1 => snd.res = Null /\ snd.d.waits = << 1000 >>
    /\ Len(snd.outs) = 2 => snd.res = Null /\ snd.d.waits = << 1000, 2000 >>
    /\ Len(snd.outs) = 3 =>
         /\ snd.res # Null
         /\ ~snd.res.success
         /\ snd.d.posts = 3
         /\ snd.d.waits = << 1000, 2000 >>
         /\ snd.d.pc # "sleep"
    /\ Len(snd.outs) <= 3

C5_Witness ==
  /\ Len(snd.outs) = 3
  /\ AllRetryable(snd.outs)
  /\ snd.res # Null

\* C6: a 400-499 response to the k-th post ends the send there: it is the last
\* post, no sleep follows it, and the send returns failure with that status.
C6_ClientErrorTerminal ==
  \A k \in DOMAIN snd.outs :
    (snd.outs[k].k = "response" /\ snd.outs[k].status \in 400 .. 499)
      => /\ k = Len(snd.outs)
         /\ snd.d.posts = k
         /\ Len(snd.d.waits) = k - 1
         /\ snd.d.pc # "sleep"
         /\ snd.res # Null
         /\ snd.res.success = FALSE
         /\ snd.res.statusCode = Status(snd.outs[k].status)

C6_Witness ==
  /\ Len(snd.outs) = 3
  /\ snd.outs[3] = Response(499)
  /\ snd.res # Null

StorageUnchanged == blobs' = blobs /\ shots' = shots /\ rows' = rows
DeleteReturns == ret.op = "none" /\ ret'.op = "deleteCapture"

\* a deleteCapture call that found neither blob nor row when it was called and
\* meets no database fault
SecondDelete(d) ==
  d.pc # "idle" /\ d.found \cap {"blob", "row"} = {} /\ d.f \notin {"getThrows", "deleteThrows"}

\* C7: a deleteCapture(id) whose storage calls do not fault returns success and
\* leaves neither the blob nor the row of id; a deleteCapture(id) that finds
\* them gone already (the second of two calls) returns success too, unless the
\* database throws, and no turn of it changes anything stored.
C7_DeleteIdempotent ==
  [][/\ DeleteReturns =>
          /\ ret'.fault = "none" =>
               /\ ret'.success
               /\ BlobOf(blobs', ret'.id) = NoFile
               /\ RowOf(rows', ret'.id) = NoRow
               /\ "row" \in ret'.found => ret'.id \notin shots'
          /\ SecondDelete(del) => ret'.success
     /\ (SecondDelete(del) /\ del' # del) => StorageUnchanged]_vars

C7_Witness ==
  /\ ret.op = "deleteCapture"
  /\ ret.id \in Ids
  /\ cap[ret.id].result = "ok"
  /\ ret.found = {}
  /\ ret.success

CleanupReturns == ret.op = "none" /\ ret'.op = "cleanupOldCaptures"

\* the cutoff of the cleanupOldCaptures call that takes this step: the call
\* that is running, or the one that is called in this step
CutoffOfStep ==
  IF cln.pc = "run" THEN cln.cutoffTime
  ELSE IF cln'.pc = "run" THEN cln'.cutoffTime
  ELSE ret'.cutoffTime

\* C8: cleanupOldCaptures(daysOld) leaves every row whose timestamp is at least
\* now - daysOld * 24h (now taken at the call), its blob and its screenshot
\* file as they were: the cutoff is taken once, at the call, and no turn of
\* the call changes any of them.
C8_CleanupKeepsRecent ==
  [][/\ (cln.pc = "idle" /\ cln'.pc = "run") =>
          cln'.cutoffTime = now - cln'.daysOld * DayMs
     /\ (cln.pc = "idle" /\ CleanupReturns) =>
          ret'.cutoffTime = now - ret'.daysOld * DayMs
     /\ (cln.pc = "run" /\ cln'.pc = "run") => cln'.cutoffTime = cln.cutoffTime
     /\ (cln.pc = "run" /\ CleanupReturns) => ret'.cutoffTime = cln.cutoffTime
     /\ (cln.pc = "run" \/ cln'.pc = "run" \/ CleanupReturns) =>
          \A i \in Ids :
            (HasRow(i) /\ rows[i].timestamp >= CutoffOfStep)
              => /\ rows'[i] = rows[i]
                 /\ blobs'[i] = blobs[i]
                 /\ (i \in shots') = (i \in shots)]_vars

C8_Witness ==
  /\ ret.op = "cleanupOldCaptures"
  /\ ~ret.threw
  /\ ret.deletedCount >= 1
  /\ \E i \in Ids :
       /\ HasRow(i) /\ HasBlob(i)
       /\ rows[i].timestamp = ret.cutoffTime
  /\ \E i \in Ids : cap[i].result = "ok" /\ ~HasRow(i) /\ ~HasBlob(i)

\* C9: the number cleanupOldCaptures returns is the number of rows the call
\* removed from the table: the rows it fetched that are gone when it returns.
C9_CleanupCountsRemoved ==
  (ret.op = "cleanupOldCaptures" /\ ~ret.threw) =>
    ret.deletedCount =
      Cardinality({i \in Ids : RowOf(ret.fetched, i) # NoRow /\ ~HasRow(i)})

\* C10: a captureContext call in which the window, tab and clipboard adapters
\* and the screen grab all failed, and whose blob write and row insert did not
\* fail, returns success, and the record it persisted has app and title
\* "Unknown", no tabs and a null clipboard.
C10_AllSourcesFail ==
  (ret.op = "captureContext" /\ ret.failed = AllSources
     /\ ret.write = "ok" /\ ~ret.insertThrew)
    => /\ ret.success
       /\ HasRow(ret.id)
       /\ LET record == loadCapture(BlobOf(blobs, ret.id))
          IN  /\ record # Null
              /\ record.activeWindow.app = "Unknown"
              /\ record.activeWindow.title = "Unknown"
              /\ record.browserTabs = << >>
              /\ record.clipboard = Null

C10_Witness ==
  /\ ret.op = "captureContext"
  /\ ret.failed = AllSources
  /\ ret.success
  /\ ret.ev = << "hide", "grab", "show" >>

\* C11: captureContext returns success with the id exactly when the record was
\* assembled and the blob write and the row insert both succeeded, and then the
\* blob and the row of that id exist. A failure it returns is the failure of
\* the assembly (the show hook threw on leaving the screenshot block, before
\* the record was built) or of one of the two writes, whatever sources failed:
\* a failed adapter, clipboard read or screen grab, or a hide hook that throws,
\* never makes the call fail.
C11_SuccessIffStored ==
  ret.op = "captureContext" =>
    /\ ret.success <=> (ret.hooks # "showThrows" /\ ret.write = "ok" /\ ~ret.insertThrew)
    /\ ret.success =>
         /\ ret.id \in Ids
         /\ BlobOf(blobs, ret.id).k = "json"
         /\ HasRow(ret.id)
    /\ ~ret.success =>
         \/ ret.error = HookError /\ ret.hooks = "showThrows" /\ ret.write = "none"
         \/ ret.error = WriteError /\ ret.write \in {"fails", "failsPartway"}
         \/ ret.error = DbError /\ ret.write = "ok" /\ ret.insertThrew

\* a success with every source failed: the adapters, the clipboard, and the
\* screen grab by the hide hook throwing
C11_Witness ==
  /\ ret.op = "captureContext"
  /\ ret.success
  /\ ret.hooks = "hideThrows"
  /\ ret.failed = AllSources

HideGrab == << "hide", "grab" >>
HideGrabShow == << "hide", "grab", "show" >>

\* C12: in a captureContext call given both hooks, hide has been invoked when
\* the grab starts, show is not invoked while the grab runs, and at the return
\* the events are hide, grab, show, also when the grab threw.
C12_HideGrabShow ==
  /\ \A id \in Ids :
       cap[id].hooks = "both" =>
         /\ cap[id].pc = "settle" => cap[id].ev = << "hide" >>
         /\ cap[id].pc \in {"grab", "read"} => cap[id].ev = HideGrab
         /\ cap[id].pc \in {"write", "close", "insert"} => cap[id].ev = HideGrabShow
  /\ (ret.op = "captureContext" /\ ret.hooks = "both") => ret.ev = HideGrabShow

C12_Witness ==
  /\ ret.op = "captureContext"
  /\ ret.hooks = "both"
  /\ ret.failed = {"screen"}
  /\ ret.ev = HideGrabShow

Count(ev, x) == Cardinality({i \in DOMAIN ev : ev[i] = x})
HooksOnceAndPaired(hooks, ev, finallyRan) ==
  /\ Count(ev, "hide") <= 1
  /\ Count(ev, "show") <= 1
  /\ hooks = "none" => Count(ev, "hide") + Count(ev, "show") = 0
  /\ (finallyRan /\ Count(ev, "hide") = 1) => Count(ev, "show") = 1

\* C13: in every captureContext call each supplied hook is invoked at most
\* once, and once the screenshot block is left (and so at the return) show has
\* been invoked if hide was, whether the grab succeeded, the grab failed or the
\* hide hook threw.
C13_HooksOnce ==
  /\ \A id \in Ids :
       HooksOnceAndPaired(cap[id].hooks, cap[id].ev,
                          cap[id].pc \in {"write", "close", "insert"})
  /\ ret.op = "captureContext" => HooksOnceAndPaired(ret.hooks, ret.ev, TRUE)

C13_Witness ==
  /\ ret.op = "captureContext"
  /\ ret.hooks = "hideThrows"
  /\ ret.ev = << "hide", "show" >>

\* C14: while the blob write of a call is outstanding the call inserts no row:
\* a row of id appears only in the turn the call of id takes after its blob
\* write has completed without failing, the blob then being whole; after a
\* failed blob write no row of id appears.
C14_BlobBeforeRow ==
  [][\A id \in Ids :
       /\ (rows[id] = NoRow /\ rows'[id] # NoRow)
            => /\ cap[id].pc = "insert"
               /\ cap[id].write = "ok"
               /\ ret'.op = "captureContext" /\ ret'.id = id /\ ret'.write = "ok"
       /\ (cap[id].pc \in {"write", "close"} /\ cap'[id] # cap[id])
            => /\ rows' = rows
               /\ cap'[id].pc \in {"write", "close", "insert"}
               /\ cap'[id].pc = "write" => BlobOf(blobs', id).k # "json"
               /\ cap'[id].pc \in {"close", "insert"} =>
                    (cap'[id].write = "ok" <=> BlobOf(blobs', id).k = "json")]_vars

C14_Witness ==
  /\ ret.op = "captureContext"
  /\ ret.write = "failsPartway"
  /\ blobs[ret.id] = Corrupt
  /\ ~HasRow(ret.id)

\* C15: captureContext returns success while its delivery is still in flight,
\* and what a call has returned is changed by no later step, whatever its
\* delivery ends with.
C15_DeliveryDoesNotGate ==
  [][/\ \A id \in Ids : cap[id].pc = "done" => cap'[id] = cap[id]
     /\ (ret = NoRet /\ ret'.op = "captureContext" /\ ret'.success)
          => (ret'.id \notin dlv /\ ret'.id \in dlv')]_vars

C15_Witness ==
  /\ ret.op = "sendToWebhook"
  /\ ~ret.send.success
  /\ ret.threw
  /\ cap[ret.id].result = "ok"

UrlsDistinct(tabs) ==
  \A i, j \in DOMAIN tabs : i # j => tabs[i].url # tabs[j].url
TabsOf(id) ==
  IF BlobOf(blobs, id).k = "json" THEN blobs[id].doc.browserTabs ELSE cap[id].tabs

\* C16: the tab list captureTabs gives a call, and the list the call persists,
\* has no two entries with the same url and at most 50 entries, whatever the
\* four browsers listed.
C16_TabsUniqueAndCapped ==
  \A id \in Ids :
    /\ UrlsDistinct(cap[id].tabs) /\ Len(cap[id].tabs) <= 50
    /\ UrlsDistinct(TabsOf(id)) /\ Len(TabsOf(id)) <= 50

C16_Witness ==
  \E id \in Ids :
    /\ cap[id].pc = "settle"
    /\ Len(collectTabs(cap[id].sc.tabQs, 1)) = 90
    /\ Len(cap[id].tabs) = 50
    /\ cap[id].tabs[50].url = UrlPool[50]

\* the clipboard text a call sanitized: the html when it gave content
ClipSource(c) == IF c.clip.type = "html" THEN c.sc.cb.html ELSE c.sc.cb.text
EndsWithMarker(t) ==
  /\ Len(t) >= Len(TruncationMarker)
  /\ SubSeq(t, Len(t) - Len(TruncationMarker) + 1, Len(t)) = TruncationMarker
Truncated(t) == EndsWithMarker(t) /\ Len(t) = maxLength + Len(TruncationMarker)

\* C17 as stated: every clipboard text longer than the cap is sanitized to
\* cap + marker length characters ending with the truncation marker.
C17_LongInputTruncated ==
  \A id \in Ids :
    (cap[id].clip # Null /\ Len(ClipSource(cap[id])) > maxLength)
      => Truncated(cap[id].clip.text)

\* C17 amended: a clipboard text whose characters left after removing control
\* characters and trimming white space exceed the cap is sanitized to the first
\* cap of them followed by the marker; a text with at most cap characters left
\* is sanitized to exactly those, without marker, however long the input was.
C17_LongCleanedTruncated ==
  \A id \in Ids :
    cap[id].clip # Null =>
      LET cleaned == Trim(StripControl(ClipSource(cap[id])))
          out == cap[id].clip.text
      IN  /\ Len(cleaned) > maxLength =>
               /\ Truncated(out)
               /\ SubSeq(out, 1, maxLength) = SubSeq(cleaned, 1, maxLength)
          /\ Len(cleaned) <= maxLength => out = cleaned

C17_Witness ==
  \E id \in Ids :
    /\ cap[id].clip # Null
    /\ Len(ClipSource(cap[id])) = maxLength + 3
    /\ Len(Trim(StripControl(ClipSource(cap[id])))) = maxLength + 1
    /\ Truncated(cap[id].clip.text)

\* C18: loadCapture(id) returns null, and raises nothing, when the blob of id
\* is absent as the call opens it or when what the call reads of it does not
\* parse (and also when the open or a read fails); it returns a record only of
\* a blob that was there as the call opened it and that parses as read, and
\* then the record of that document, its timestamp a Date again.
C18_LoadCaptureNullOrRecord ==
  /\ [](ret.op = "loadCapture" =>
          /\ ret.value # Raised
          /\ ret.value = Null <=> ret.file \in {NoFile, Corrupt, ReadError}
          /\ ret.value # Null =>
               /\ ret.file.k = "json"
               /\ ret.id \in Ids
               /\ ret.value.id = ret.id
               /\ ret.value.timestamp = [date |-> ret.file.doc.timestamp.iso]
               /\ HasRow(ret.id) => ret.value.timestamp.date = rows[ret.id].timestamp
               /\ ret.value.browserTabs = ret.file.doc.browserTabs)
  /\ [][LET turn == lod' # lod
        IN  /\ (lod.pc = "load" /\ turn /\ ~HasBlob(lod.id))
                 => lod' = [pc |-> "loaded", id |-> lod.id, file |-> NoFile]
            /\ (lod.pc = "load" /\ turn /\ HasBlob(lod.id))
                 => \/ lod' = [pc |-> "opened", id |-> lod.id, file |-> blobs[lod.id]]
                    \/ lod' = [pc |-> "loaded", id |-> lod.id, file |-> ReadError]
            /\ (lod.pc = "opened" /\ turn)
                 => /\ lod'.pc = "read"
                    /\ lod'.file \in {reached(blobs, orphans, lod.id), Corrupt, ReadError}
                    /\ lod'.file # NoFile
                    /\ lod.file # Corrupt => lod'.file \in {lod.file, ReadError}
            /\ (lod.pc = "read" /\ turn)
                 => lod' = [pc |-> "loaded", id |-> lod.id, file |-> lod.file]
            /\ (lod.pc = "loaded" /\ turn)
                 => ret'.op = "loadCapture" /\ ret'.id = lod.id /\ ret'.file = lod.file
       ]_vars

\* the call opened the blob, a deleteCapture unlinked it, and the call returns
\* the record of the blob that has no name any more
C18_Witness ==
  /\ ret.op = "loadCapture"
  /\ ret.value # Null
  /\ ~HasBlob(ret.id)

\* C19: after a deleteCapture(id) that returned success, neither the blob, nor
\* the screenshot file, nor the row of id exists.
C19_DeletedAsUnit ==
  (ret.op = "deleteCapture" /\ ret.success) => Stored(ret.id) = {}

\* C20: a row is inserted with webhook_sent = 0, and webhook_sent becomes 1
\* only in a step in which a send for the id of the row returned success.
C20_SentOnlyBySuccess ==
  [][\A i \in Ids :
       /\ (rows[i] = NoRow /\ rows'[i] # NoRow) => rows'[i].webhook_sent = 0
       /\ (rows[i] # NoRow /\ rows'[i] # NoRow
             /\ rows[i].webhook_sent = 0 /\ rows'[i].webhook_sent = 1)
            => /\ ret'.op \in {"sendToWebhook", "retryWebhook"}
               /\ ret'.id = i
               /\ ret'.send.success]_vars

C20_Witness ==
  /\ ret.op = "retryWebhook"
  /\ ret.send # Null
  /\ ret.send.success
  /\ HasRow(ret.id)
  /\ rows[ret.id].webhook_sent = 1
  /\ rows[ret.id].webhook_sent_at = At(now)


\* C21: captureContext calls whose steps interleave draw different ids; a call
\* that succeeds leaves the blob and the row of its own id holding what that
\* call gathered; and no step of one call changes the blob, the screenshot or
\* the row of another id.
C21_CapturesIsolated ==
  [][ /\ nextId' # nextId =>
           \E i \in Ids : cap[i].pc = "new" /\ cap'[i].pc = "adapters" /\ Stored(i) = {}
      /\ \A i \in Ids : cap'[i] # cap[i] =>
           /\ \A j \in Ids \ {i} :
                blobs'[j] = blobs[j] /\ rows'[j] = rows[j] /\ (j \in shots' <=> j \in shots)
           /\ (cap[i].pc = "insert" /\ ret'.op = "captureContext" /\ ret'.success) =>
                /\ blobs'[i].k = "json"
                /\ blobs'[i].doc.id = i
                /\ blobs'[i].doc.timestamp = [iso |-> cap[i].ts]
                /\ blobs'[i].doc.activeWindow.app = AppOf(cap[i].aw)
                /\ blobs'[i].doc.browserTabs = cap[i].tabs
                /\ blobs'[i].doc.clipboard = cap[i].clip
                /\ blobs'[i].doc.metadata.captureMethod = cap[i].sc.method
                /\ rows'[i] # NoRow
                /\ rows'[i].app_name = AppOf(cap[i].aw)
                /\ rows'[i].tabs_count = Len(cap[i].tabs)
                /\ rows'[i].json_path = JsonPath(i)
                /\ rows'[i].screenshot_path = cap[i].shotPath
    ]_vars
\* the second of two calls returns success while the first, of the other
\* scenario, is still writing; the first call's screenshot is stored
C21_Witness ==
  /\ ret.op = "captureContext" /\ ret.id = 2 /\ ret.success
  /\ cap[1].pc = "write"
  /\ 1 \in shots
  /\ blobs[2].k = "json"
  /\ blobs[2].doc.activeWindow.app # AppOf(cap[1].aw)
  /\ HasRow(2)

\* C22: when cleanupOldCaptures(daysOld) returns, no row whose timestamp is
\* before the cutoff (now less daysOld days, taken at the call) remains in the
\* table.
C22_CleanupLeavesNoOldRow ==
  [][ (ret'.op = "cleanupOldCaptures" /\ ~ret'.threw) =>
        \A i \in Ids :
          RowOf(rows', i) # NoRow => rows'[i].timestamp >= ret'.cutoffTime
    ]_vars

\* a retryWebhook call for id i has its send in flight
RetrySending(i) == \E j \in RetrySlots : rty[j].pc = "send" /\ rty[j].id = i

\* C23: when two deliveries for one id are in flight at once and at least one
\* succeeds, the row is marked sent once both have completed, whichever
\* completes last. The delivery dispatched by the capture is in flight from the
\* insert of the row on, so a row already marked sent while it is in flight was
\* marked by a retry that succeeded during it; when the dispatched delivery
\* then completes and no retry is left sending, the row is marked sent.
C23_ConcurrentSuccessSticks ==
  [][ \A i \in Ids :
        ( /\ i \in dlv /\ i \notin dlv'
          /\ RowOf(rows, i) # NoRow /\ rows[i].webhook_sent = 1
          /\ RowOf(rows', i) # NoRow
          /\ ~RetrySending(i)' )
        => rows'[i].webhook_sent = 1
    ]_vars

\* C24: webhook_sent_at of a row changes only in a step that takes the row from
\* unsent to sent; an update with sent = false, or with sent = true on a row
\* already sent, leaves it as it was.
C24_SentAtOnlyOnTransition ==
  [][ \A i \in Ids :
        ( /\ RowOf(rows, i) # NoRow /\ RowOf(rows', i) # NoRow
          /\ ~(rows[i].webhook_sent = 0 /\ rows'[i].webhook_sent = 1) )
        => rows'[i].webhook_sent_at = rows[i].webhook_sent_at
    ]_vars

\* the delivery status of row i
StatusOf(rs, i) == << rs[i].webhook_sent, rs[i].webhook_sent_at >>
\* in this step a delivery for id i leaves flight, its send having returned
DeliveryCompletes(i) ==
  /\ ret'.op \in {"sendToWebhook", "retryWebhook"}
  /\ ret'.id = i
  /\ ret'.send # Null
  /\ \/ i \in dlv /\ i \notin dlv' /\ rty' = rty
     \/ \E j \in RetrySlots :
          rty[j].pc = "send" /\ rty[j].id = i /\ rty'[j] = NoRetry /\ dlv' = dlv
\* the status update of the delivery completing in this step did not throw
UpdateRan == IF ret'.op = "sendToWebhook" THEN ~ret'.threw ELSE ret'.success

\* C25: each delivery makes one status update for its id, after its send has
\* returned. The row is inserted unsent when the delivery is dispatched; while
\* deliveries are in flight the status of a row changes only in the step in
\* which one delivery for its id completes; and in that step the row takes the
\* status that this send returned.
C25_OneUpdateAfterSend ==
  [][ \A i \in Ids :
        /\ (RowOf(rows, i) = NoRow /\ RowOf(rows', i) # NoRow)
             => i \in dlv' /\ StatusOf(rows', i) = << 0, Null >>
        /\ (RowOf(rows, i) # NoRow /\ RowOf(rows', i) # NoRow
              /\ StatusOf(rows', i) # StatusOf(rows, i))
             => DeliveryCompletes(i)
        /\ (DeliveryCompletes(i) /\ RowOf(rows, i) # NoRow /\ UpdateRan)
             => StatusOf(rows', i) =
                  IF ret'.send.success THEN << 1, At(now) >> ELSE << 0, Null >>
    ]_vars
\* the dispatched delivery has returned failure after three posts while a retry
\* for the same id is still sending, and the row shows that failure
C25_Witness ==
  /\ ret.op = "sendToWebhook"
  /\ ~ret.send.success
  /\ ret.send.statusCode = NoStatus
  /\ ~ret.threw
  /\ RetrySending(ret.id)
  /\ HasRow(ret.id)
  /\ rows[ret.id].webhook_sent = 0

\* C26: when the delivery dispatched by a capture returns failure (a 4xx
\* response, or three retryable failures) for a row that is there and that no
\* delivery has marked sent, the row is still there afterwards, it is unsent
\* and getUnsentCaptures returns it.
C26_FailedDeliveryStaysUnsent ==
  [][ \A i \in Ids :
        ( /\ i \in dlv /\ i \notin dlv'
          /\ ret'.op = "sendToWebhook" /\ ret'.id = i
          /\ ~ret'.send.success
          /\ RowOf(rows, i) # NoRow /\ rows[i].webhook_sent = 0 )
        => /\ RowOf(rows', i) # NoRow
           /\ rows'[i].webhook_sent = 0
           /\ i \in getUnsentCaptures(rows')
    ]_vars
\* the dispatched delivery was refused with a 404, no other delivery for the id
\* is in flight, and the row is among the unsent ones
C26_Witness ==
  /\ ret.op = "sendToWebhook"
  /\ ~ret.send.success
  /\ ret.send.statusCode = Status(404)
  /\ ~RetrySending(ret.id)
  /\ HasRow(ret.id)
  /\ ret.id \in getUnsentCaptures(rows)

\* what send has in common whatever its posts meet: at most 3 posts, returned
\* once the third has settled, success exactly when its last post succeeded,
\* no post after a post that succeeded
SendBounded ==
  LET n == Len(snd.outs)
  IN  /\ n <= 3
      /\ snd.d.posts <= 3
      /\ snd.res = Null => n < 3
      /\ \A k \in 1 .. n : Resolves(snd.outs[k]) => k = n /\ snd.res # Null
      /\ snd.res # Null =>
           /\ n >= 1
           /\ snd.d.posts = n
           /\ snd.d.pc # "sleep"
           /\ snd.res.success <=> Resolves(snd.outs[n])
\* three retryable failures have been met and send has returned
ThreeFailed == Len(snd.outs) = 3 /\ AllRetryable(snd.outs) /\ snd.res # Null

\* C27 as stated: whatever its posts meet, send makes at most 3 posts and has
\* returned once the third has settled; it returns success exactly when its
\* last post succeeded; no post follows a post that succeeded; and after three
\* retryable failures the error it returns is the message of the third.
C27_ErrorIsThirdMessage ==
  /\ SendBounded
  /\ ThreeFailed => snd.res.error = MessageOf(snd.outs[3])

\* C27, amended: the same, and after three retryable failures the error
\* returned is the message of the third, or 'Unknown error' when the third
\* failure has no message.
C27_SendBounded ==
  /\ SendBounded
  /\ ThreeFailed =>
       IF snd.outs[3].k = "error" /\ snd.outs[3].message = ""
         THEN snd.res.error = Err("Unknown error")
         ELSE snd.res.error = MessageOf(snd.outs[3])
\* three retryable failures with different messages: the error returned is the
\* third message, not the first
C27_Witness ==
  /\ Len(snd.outs) = 3
  /\ AllRetryable(snd.outs)
  /\ MessageOf(snd.outs[1]) # MessageOf(snd.outs[3])
  /\ MessageOf(snd.outs[2]) # MessageOf(snd.outs[3])
  /\ snd.res # Null
  /\ snd.res.error = MessageOf(snd.outs[3])

\* the tab list of the b-th browser: empty when its script failed
BrowserList(qs, b) == captureBrowserTabs(qs[b], Browsers[b])
\* the entries of tabs whose url no earlier entry has, in their order
FirstByUrl(tabs) ==
  LET IsFirst(i) == \A j \in 1 .. i - 1 : tabs[j].url # tabs[i].url
      kept == SelectSeq([i \in 1 .. Len(tabs) |-> i], IsFirst)
  IN  [k \in 1 .. Len(kept) |-> tabs[kept[k]]]
FirstFifty(tabs) == [k \in 1 .. (IF Len(tabs) < 50 THEN Len(tabs) ELSE 50) |-> tabs[k]]
ExpectedTabs(qs) ==
  FirstFifty(FirstByUrl(BrowserList(qs, 1) \o BrowserList(qs, 2)
                          \o BrowserList(qs, 3) \o BrowserList(qs, 4)))
\* the captureContext calls that hold the result of captureTabs
HoldsTabs(id) == cap[id].pc \in {"settle", "grab", "read", "write", "close", "insert"}

\* C28: the list captureTabs gives is the first 50 entries of the
\* first-occurrence-by-url subsequence of the lists of Chrome, Safari, Firefox
\* and Edge put one after the other in that order.
C28_TabsAreFirstOccurrences ==
  \A id \in Ids : HoldsTabs(id) => cap[id].tabs = ExpectedTabs(cap[id].sc.tabQs)
\* Chrome lists urls 31..60, Safari and Firefox urls 1..30: of the 60 first
\* occurrences the first 50 are kept, Chrome's before Safari's, none of Firefox
C28_Witness ==
  \E id \in Ids :
    /\ cap[id].pc = "grab"
    /\ cap[id].sc.tabQs[3] # ExecFailed
    /\ Len(cap[id].tabs) = 50
    /\ cap[id].tabs[1].url = UrlPool[31]
    /\ cap[id].tabs[31].url = UrlPool[1]
    /\ cap[id].tabs[31].browser = "Safari"
    /\ cap[id].tabs[50].url = UrlPool[20]

\* the browsers whose script ran
Remaining(qs) == {b \in DOMAIN qs : qs[b] # ExecFailed}
\* qs with every failed script replaced by one that lists no tab
WithoutFailed(qs) == [b \in DOMAIN qs |-> IF qs[b] = ExecFailed THEN ExecOut(<< >>) ELSE qs[b]]
Urls(tabs) == {tabs[k].url : k \in DOMAIN tabs}

\* C29: whichever browser scripts fail, captureTabs gives a list, and it is
\* computed from the tabs of the remaining browsers and from nothing else:
\* every entry is a tab one of the remaining browsers listed; every url a
\* remaining browser listed is there unless the list is full; and the list is
\* the one the same call gives when the failed browsers list no tab at all.
C29_BrowserFailuresIsolated ==
  \A id \in Ids : HoldsTabs(id) =>
    LET qs == cap[id].sc.tabQs
        got == cap[id].tabs
    IN  /\ \A k \in DOMAIN got :
             \E b \in Remaining(qs) :
               /\ got[k].browser = Browsers[b]
               /\ \E m \in 1 .. Len(qs[b].out) \div 2 :
                    qs[b].out[2 * m - 1] = got[k].url /\ qs[b].out[2 * m] = got[k].title
        /\ Len(got) < 50 =>
             \A b \in Remaining(qs) :
               \A m \in 1 .. Len(qs[b].out) \div 2 : qs[b].out[2 * m - 1] \in Urls(got)
        /\ got = captureTabs(WithoutFailed(qs))
\* Chrome and Firefox failed, Safari listed urls 16..45: the call holds Safari's
\* thirty tabs
C29_Witness ==
  \E id \in Ids :
    /\ cap[id].pc = "write"
    /\ cap[id].sc.tabQs[1] = ExecFailed
    /\ cap[id].sc.tabQs[3] = ExecFailed
    /\ Len(cap[id].tabs) = 30
    /\ cap[id].tabs[1].url = UrlPool[16]
    /\ \A k \in DOMAIN cap[id].tabs : cap[id].tabs[k].browser = "Safari"

\* C30: a failure of one of the two active-window queries leaves the field of
\* the other query in the result: when the title query answers, the result
\* carries that title even if the application query failed; when the
\* application query answers, the result carries that application even if the
\* title query failed; the result is null only when both queries failed.
C30_QueryFailureNullsOnlyItsField ==
  \A id \in Ids : HoldsTabs(id) =>
    LET sc == cap[id].sc
        aw == cap[id].aw
    IN  /\ (sc.titleQ # ExecFailed /\ sc.titleQ.out # "")
             => aw # Null /\ aw.title = sc.titleQ.out
        /\ sc.appQ # ExecFailed
             => aw # Null /\ aw.app = sc.appQ.out[1]
        /\ aw = Null => sc.appQ = ExecFailed /\ sc.titleQ = ExecFailed

\* C31: the screen capture runs in parallel with the source adapters: while the
\* active-window and browser-tab adapters of a call have not completed, the
\* screen grab of that call can start.
C31_GrabDoesNotWait ==
  \A id \in Ids : (cap[id].pc = "adapters" /\ ret = NoRet) => ENABLED SettleDone(id)

\* C31, as the code has it: while the active-window and browser-tab adapters of
\* a call have not completed, the call has invoked no hook, has set no
\* screenshot path and has started no grab; the screenshot block starts in the
\* step in which both adapters have settled.
C31_GrabAfterAdapters ==
  /\ \A id \in Ids :
       cap[id].pc = "adapters" =>
         /\ cap[id].ev = << >>
         /\ cap[id].shotPath = NoPath
         /\ id \notin shots
         /\ ~ENABLED SettleDone(id)
         /\ ~(\E ok \in BOOLEAN : ENABLED GrabDone(id, ok))
  /\ \A id \in Ids :
       cap[id].ev # << >> => cap[id].pc \in {"settle", "grab", "read", "write", "close", "insert"}
\* a call given both hooks whose adapters have settled with a window and tabs:
\* hide has been invoked and the grab is running
C31_Witness ==
  \E id \in Ids :
    /\ cap[id].pc = "grab"
    /\ cap[id].ev = HideGrab
    /\ cap[id].aw # Null
    /\ Len(cap[id].tabs) > 0

\* the timer of the q-th command of call id fired before its OS call completed
TimerWon(id, q) == q \in DOMAIN cap[id].execs /\ cap[id].execs[q].timer = "fired"
\* what the adapters gave the call is empty for the source of the q-th command
EmptyFor(c, q) ==
  CASE q = 1 -> c.aw = Null
    [] q = 2 -> c.aw = Null \/ c.aw.title = "Unknown"
    [] OTHER -> \A k \in DOMAIN c.tabs : c.tabs[k].browser # Browsers[q - 2]

\* C32: when the timer of an adapter command fires before the OS call
\* completes, the command's promise is rejected and stays so, the adapter gives
\* its empty result for it (no tab of that browser, no window or an unknown
\* title), and the completion of the OS call afterwards, with output or with an
\* error, changes neither what the promise gives nor the window, the tabs, the
\* latest capture or the storage.
C32_TimeoutResultFinal ==
  /\ [](\A id \in Ids, q \in 1 .. 6 :
          TimerWon(id, q) =>
            /\ awaitExec(cap[id].execs[q]) = ExecFailed
            /\ HoldsTabs(id) => EmptyFor(cap[id], q))
  /\ [][ \A id \in Ids, q \in 1 .. 6 :
           (TimerWon(id, q) /\ ~cap[id].execs[q].called
              /\ q \in DOMAIN cap'[id].execs /\ cap'[id].execs[q].called)
             => /\ awaitExec(cap'[id].execs[q]) = ExecFailed
                /\ cap'[id].execs[q].value = CommandTimeout
                /\ cap'[id].aw = cap[id].aw
                /\ cap'[id].tabs = cap[id].tabs
                /\ latestCapture' = latestCapture
                /\ blobs' = blobs /\ rows' = rows
       ]_vars
\* Chrome's command timed out and its OS call completed afterwards with two
\* tabs: the record assembled holds Safari's tab only
C32_Witness ==
  \E id \in Ids :
    /\ cap[id].pc = "write"
    /\ TimerWon(id, 3)
    /\ cap[id].execs[3].called
    /\ cap[id].execs[3].out # ExecFailed
    /\ Len(cap[id].tabs) = 1
    /\ cap[id].tabs[1].browser = "Safari"
    /\ latestCapture # Null
    /\ latestCapture.browserTabs = cap[id].tabs

\* C33: under fair scheduling every captureContext call that has started
\* returns, although no OS call of its window and tab adapters need ever
\* complete and although its delivery need never complete: whenever a call is
\* between its start and its return, later none is (the calls here come one
\* after the other, so the call that was running has returned). And a call
\* that returns success returns while the delivery it dispatched is in flight.
C33_CaptureReturns ==
  /\ (~NoCaptureRunning) ~> NoCaptureRunning
  /\ [](\A id \in Ids : cap[id].pc \in {"new", "done"} \/ id \notin dlv)
  /\ []((ret.op = "captureContext" /\ ret.success) => ret.id \in dlv)

\* what reading member m of r gives: undefined when r has no such member
Member(r, m, undefined) == IF m \in DOMAIN r THEN r[m] ELSE undefined
\* record v has, member by member, what the assembled record a has
SameRecord(v, a) ==
  /\ v.id = a.id
  /\ v.timestamp = a.timestamp
  /\ v.activeWindow.app = a.activeWindow.app
  /\ v.activeWindow.title = a.activeWindow.title
  /\ Member(v.activeWindow, "bundleId", UndefinedStr) = a.activeWindow.bundleId
  /\ Member(v.activeWindow, "screenshot", Undefined) = a.activeWindow.screenshot
  /\ v.browserTabs = a.browserTabs
  /\ v.clipboard = a.clipboard
  /\ v.metadata = a.metadata
\* captureContext has returned success for id
Persisted(id) == id \in Ids /\ cap[id].result = "ok"

C35_FailsOnlyOnRowDelete ==
  (ret.op = "deleteCapture" /\ ~ret.success) => ret.fault = "deleteThrows"

\* C36: when a captureContext call returns success = false, latestCapture (what
\* getLatestCapture returns) is not the record of that call.
C36_FailedCaptureNotLatest ==
  (ret.op = "captureContext" /\ ~ret.success) =>
    (latestCapture = Null \/ latestCapture.id # ret.id)

\* C37: when a captureContext call returns success = false, no file of that
\* capture is left: neither its screenshot file nor its blob exists.
C37_FailedCaptureLeavesNoFile ==
  (ret.op = "captureContext" /\ ~ret.success) =>
    /\ ret.id \notin shots
    /\ BlobOf(blobs, ret.id) = NoFile

\* C38: a delivery for id i that completes when the row of i is gone (the
\* capture was deleted while the send was in flight) recreates nothing: the
\* table, the blobs and the screenshots are as before, so no row of i exists
\* afterwards; and the status update finds no row and does nothing.
C38_LateDeliveryRecreatesNothing ==
  [][ \A i \in Ids :
        (DeliveryCompletes(i) /\ RowOf(rows, i) = NoRow) =>
          /\ rows' = rows
          /\ RowOf(rows', i) = NoRow
          /\ blobs' = blobs
          /\ shots' = shots
          /\ updateWebhookStatus(rows, i, ret'.send.success, now) = rows
    ]_vars
\* the delivery dispatched by a capture that succeeded has been accepted after
\* the capture was deleted: nothing of the capture is stored
C38_Witness ==
  /\ ret.op = "sendToWebhook"
  /\ ret.send.success
  /\ ~ret.threw
  /\ cap[ret.id].result = "ok"
  /\ Stored(ret.id) = {}

\* row i and a blob document say the same of the capture
RowAgrees(row, doc, i) ==
  /\ doc.id = i
  /\ row.app_name = doc.activeWindow.app
  /\ row.window_title = doc.activeWindow.title
  /\ row.tabs_count = Len(doc.browserTabs)
  /\ row.has_clipboard = 1 <=> doc.clipboard # Null
  /\ row.has_clipboard \in {0, 1}
  /\ row.json_path = JsonPath(i)

\* C39: in every reachable state each row agrees with the blob of its id:
\* app_name, window_title, tabs_count and has_clipboard say what the blob says
\* of the window, the tabs and the clipboard, and json_path names that blob.
C39_RowAgreesWithBlob ==
  \A i \in Ids :
    (HasRow(i) /\ BlobOf(blobs, i) # NoFile) =>
      /\ blobs[i].k = "json"
      /\ RowAgrees(rows[i], blobs[i].doc, i)
\* a row of a capture whose sources all failed: both names are the default, no
\* tab, no clipboard
C39_Witness ==
  \E i \in Ids :
    /\ HasRow(i)
    /\ rows[i].app_name = "Unknown"
    /\ rows[i].has_clipboard = 0
    /\ BlobOf(blobs, i).k = "json"
    /\ blobs[i].doc.activeWindow.title = "Unknown"
    /\ blobs[i].doc.clipboard = Null

\* C40: in every reachable state every row has webhook_sent = 1 exactly when
\* its webhook_sent_at is non-null, whatever inserts, successful and failed
\* deliveries and retries came before.
C40_SentIffStamped ==
  \A i \in Ids :
    HasRow(i) =>
      /\ rows[i].webhook_sent \in {0, 1}
      /\ rows[i].webhook_sent = 1 <=> rows[i].webhook_sent_at # Null
\* a delivery has just succeeded and its row carries the flag and the stamp
C40_Witness ==
  /\ ret.op = "sendToWebhook"
  /\ ret.send.success
  /\ HasRow(ret.id)
  /\ rows[ret.id].webhook_sent = 1
  /\ rows[ret.id].webhook_sent_at # Null
====
